---- MODULE Spec2Model ----
(***************************************************************************)
(* A model of edna2's Dozor tasks (src/edna2/tasks/ControlDozor.py):       *)
(*   - ControlDozor.createListOfBatches  (the batch partitioner)           *)
(*   - ExecDozor.generateCommands / parseOutput / parseDouble              *)
(*   - ControlDozor.run / runDozorTask   (the per-batch orchestration)     *)
(*   - ExecDozor.generatePngPlots        (the decoder of the plot file)    *)
(* and of ControlIndexing.runControlDozor (src/edna2/tasks/                *)
(* ControlIndexing.py), which runs ControlDozor tasks concurrently.        *)
(* Python's None is the empty tuple None == <<>>; a present value v of an  *)
(* optional is the one-element tuple <<v>>.                                *)
(***************************************************************************)
EXTENDS Integers, Sequences, FiniteSets, TLC

VARIABLES
    \* ---- ControlDozor.createListOfBatches
    listImage,          \* the argument: image numbers in the caller's order
    batchSize,          \* the argument batchSize
    overlap,            \* the argument overlap (a flag)
    listImageSorted,    \* sorted(listImage)
    imageIndex,         \* position of the for-loop in listImageSorted
    batchLoop,          \* the locals listAllBatches, listImagesInBatch,
                        \* indexBatch, indexNextImageInBatch
    pcBatch,            \* "idle", "loop", "split", "done"
    \* ---- ExecDozor.run, generateCommands, parseOutput
    inData,             \* the task's inData
    toolLog,            \* what the external program will print (environment)
    spotFiles,          \* image numbers whose .spot file the program writes
    original,           \* the log before one token of it was replaced
    replaced,           \* None, or Some of the line and token replaced
    commands,           \* the text written to dozor.dat, as key/value lines
    listOutput,         \* output.split("\n")[6:]
    lineIndex,          \* position of the for-loop in listOutput
    resultDozor,        \* the dictionary parseOutput builds
    pcExec,             \* "idle", "generate", "execute", "parse",
                        \* "returned", "raised"
    \* ---- ControlDozor.run, determineBatchsize, runDozorTask
    ctlInData,          \* the inData of ControlDozor
    hasOverlap,         \* self.hasOverlap
    ctlOverlap,         \* the local overlap of run (line 566)
    dictImage,          \* the keys of dictImage, in insertion order
    listAllBatches,     \* the batches of run (line 570)
    batchNo,            \* position of the for-loop in listAllBatches
    dozorTasks,         \* the ExecDozor tasks executed so far, in order
    outData,            \* the outData of run
    listDozorAllFile,   \* the local listDozorAllFile of run
    detectorType,       \* the local detectorType of run
    pcRun,              \* "idle", "start", "batches", "returned", "raised"
    \* ---- ControlIndexing.run, runControlDozor
    listSubWedge,       \* the sub-wedges, each the list of its image numbers
    startIndex,         \* position of the first loop in the images
    listControlDozor,   \* the ControlDozor tasks started, in start order
    completed,          \* the positions of the tasks in the order in which
                        \* they terminated
    joinIndex,          \* position of the second loop in listControlDozor
    listOutDataControlDozor,    \* the list runControlDozor returns
    listDozorSpotFile,  \* the local listDozorSpotFile of run
    pcIdx,              \* "idle", "start", "join", "returned", "indexing",
                        \* "raised"
    \* ---- ExecDozor.generatePngPlots
    listLines,          \* the lines of the plot file
    plotDocument,       \* None, or Some of the plots the file was written from
    plotLoop,           \* the locals listPlots, dictPlotList, dictSubPlot
                        \* and index, and whether the pass has raised
    listXSFile,         \* the list generatePngPlots returns
    pcPlot              \* "idle", "parse", "render", "returned", "raised"

varsBatch == <<listImage, batchSize, overlap, listImageSorted, imageIndex,
               batchLoop, pcBatch>>

varsExec == <<inData, toolLog, spotFiles, original, replaced, commands,
              listOutput, lineIndex, resultDozor, pcExec>>

varsRun == <<ctlInData, hasOverlap, ctlOverlap, dictImage, listAllBatches,
             batchNo, dozorTasks, outData, listDozorAllFile, detectorType,
             pcRun>>

varsIdx == <<listSubWedge, startIndex, listControlDozor, completed, joinIndex,
             listOutDataControlDozor, listDozorSpotFile, pcIdx>>

varsPlot == <<listLines, plotDocument, plotLoop, listXSFile, pcPlot>>

vars == <<varsBatch, varsExec, varsRun, varsIdx, varsPlot>>

\* What the steps of one task leave alone: the variables of the others.
othersBatch == <<varsExec, varsRun, varsIdx, varsPlot>>

othersExec == <<varsBatch, varsRun, varsIdx, varsPlot>>

othersRun == <<varsBatch, varsExec, varsIdx, varsPlot>>

othersIdx == <<varsBatch, varsExec, varsRun, varsPlot>>

othersPlot == <<varsBatch, varsExec, varsRun, varsIdx>>

\* ---------------------------------------------------------------- bounds
\* Image numbers are drawn from 1..MaxImageNo, batch sizes from 1..MaxBatchSize.
MaxImageNo == 5
MaxBatchSize == 3

\* ---------------------------------------------------------------- helpers
None == <<>>

Some(v) == <<v>>

Range(s) == {s[i] : i \in DOMAIN s}

Last(s) == s[Len(s)]

RECURSIVE Flatten(_)
Flatten(ss) ==
    IF ss = <<>> THEN <<>> ELSE Head(ss) \o Flatten(Tail(ss))

Min(S) == CHOOSE x \in S : \A y \in S : x <= y

Abs(x) == IF x < 0 THEN 0 - x ELSE x

\* All the orders in which the elements of the set S can be supplied.
RECURSIVE Orderings(_)
Orderings(S) ==
    IF S = {} THEN {<<>>}
    ELSE UNION {{<<x>> \o t : t \in Orderings(S \ {x})} : x \in S}

\* ------------------------------------------ ControlDozor.createListOfBatches
\* A plausible slip: the input is walked in the caller's order.
sortedMissing(list) == list

\* Python's sorted() on a list of distinct integers: ascending order.
RECURSIVE sortedAscending(_)
sortedAscending(list) ==
    IF list = <<>> THEN <<>>
    ELSE LET m == Min(Range(list))
             rest == SelectSeq(list, LAMBDA x : x # m)
         IN  <<m>> \o sortedAscending(rest)

sorted(list) == sortedAscending(list)

\* The locals before the loop (lines 1055-1058).
BatchLocals ==
    [listAllBatches |-> <<>>, listImagesInBatch |-> <<>>,
     indexBatch |-> 0, indexNextImageInBatch |-> None]

\* Plausible slips in the elif condition of line 1070.
NewBatchIgnoresGap(st, imageNo, size) == st.indexBatch = size

NewBatchIgnoresSize(st, imageNo, size) ==
    imageNo # st.indexNextImageInBatch[1]

\* A plausible slip: the count is compared one image too early.
NewBatchNeededEarly(st, imageNo, size) ==
    imageNo # st.indexNextImageInBatch[1] \/ st.indexBatch >= size - 1

\* Line 1070: imageNo != indexNextImageInBatch or indexBatch == batchSize.
NewBatchNeeded(st, imageNo, size) ==
    imageNo # st.indexNextImageInBatch[1] \/ st.indexBatch = size

\* One iteration of the for loop (lines 1060-1080).
LoopBody(st, imageNo, size) ==
    IF st.indexNextImageInBatch = None
    THEN LET st1 == [st EXCEPT !.indexBatch = 1,
                               !.indexNextImageInBatch = Some(imageNo + 1),
                               !.listImagesInBatch = Append(@, imageNo)]
         IN  IF size = 1
             THEN [st1 EXCEPT
                     !.listAllBatches = Append(@, st1.listImagesInBatch),
                     !.listImagesInBatch = <<>>,
                     !.indexNextImageInBatch = None]
             ELSE st1
    ELSE IF NewBatchNeeded(st, imageNo, size)
    THEN [st EXCEPT !.indexBatch = 1,
                    !.listAllBatches = Append(@, st.listImagesInBatch),
                    !.listImagesInBatch = <<imageNo>>,
                    !.indexNextImageInBatch = Some(imageNo + 1)]
    ELSE [st EXCEPT !.listImagesInBatch = Append(@, imageNo),
                    !.indexNextImageInBatch = Some(@[1] + 1),
                    !.indexBatch = @ + 1]

\* A plausible slip: the batch in progress is forgotten at the end.
FinalAppendMissing(st) == st

\* Lines 1081-1082: the batch in progress is appended after the loop.
FinalAppend(st) ==
    IF st.listImagesInBatch # <<>>
    THEN [st EXCEPT !.listAllBatches = Append(@, st.listImagesInBatch)]
    ELSE st

\* A plausible slip: the batches are not split.
SplitMissing(batches) == batches

\* Lines 1085-1089: every image number becomes a batch of its own.
RECURSIVE SplitBatches(_)
SplitBatches(batches) ==
    IF batches = <<>> THEN <<>>
    ELSE [i \in 1..Len(Head(batches)) |-> <<Head(batches)[i]>>]
         \o SplitBatches(Tail(batches))

\* Lines 1083-1089.
OverlapSplit(batches, flag) ==
    IF flag THEN SplitBatches(batches) ELSE batches

RECURSIVE BatchFold(_, _, _)
BatchFold(st, list, size) ==
    IF list = <<>> THEN st
    ELSE BatchFold(LoopBody(st, Head(list), size), Tail(list), size)

\* The whole function, for its callers (ControlDozor.run).
createListOfBatches(list, size, flag) ==
    OverlapSplit(FinalAppend(BatchFold(BatchLocals, sorted(list), size)).listAllBatches,
                 flag)

\* ------------------------------------------------ ExecDozor: tokens and lines
\* A token of a log line, by what the decoder can see of it: kind "int"
\* (digits), "float" (a decimal number) or "word" (anything else); neg says
\* that it starts with "-"; v is its magnitude (for a word, its identity).
IntTok(v) == [kind |-> "int", neg |-> FALSE, v |-> v]

FloatTok(v) == [kind |-> "float", neg |-> FALSE, v |-> v]

NegFloatTok(v) == [kind |-> "float", neg |-> TRUE, v |-> v]

WordTok(v) == [kind |-> "word", neg |-> FALSE, v |-> v]

DashTok(v) == [kind |-> "word", neg |-> TRUE, v |-> v]

TokVal(t) == IF t.neg THEN 0 - t.v ELSE t.v

\* str.isdigit() of line 287.
isdigit(t) == t.kind = "int" /\ ~t.neg

\* str.startswith("-") of line 307.
startswithDash(t) == t.neg

\* Whether int(token) of lines 308 and 316 succeeds.
intParses(t) == t.kind = "int"

\* Lines 368-376: float(value), None when it does not parse.
parseDouble(value) ==
    IF value.kind \in {"int", "float"} THEN Some(TokVal(value)) ELSE None

\* A line of the log: listLine is shlex.split(line.replace("|", " ")) and
\* shlexError says that shlex.split raises ValueError instead (a quote that
\* is not closed); startsWithH is line.startswith("h"); eqParts is
\* [part.split() for part in line.split("=")].
Line(toks, h, parts) ==
    [listLine |-> toks, shlexError |-> FALSE, startsWithH |-> h,
     eqParts |-> parts]

\* Python's listLine[i], i counted from 0.
Tok(listLine, i) == listLine[i + 1]

\* ------------------------------------------------ ExecDozor.generateCommands
\* Angles are whole numbers of a quarter of a thousandth of a degree, and the
\* angles of inData are even, so that oscillationRange / 2.0 is exact.
\* "%.3f": the nearest thousandth (4 units). A number half way between two
\* thousandths goes up or down with the double that holds it: tieUp.
Fmt3(x, tieUp) ==
    LET q == x \div 4
        r == x % 4
    IN  IF r < 2 THEN 4 * q
        ELSE IF r > 2 THEN 4 * (q + 1)
        ELSE IF tieUp THEN 4 * (q + 1) ELSE 4 * q

\* Lines 53-68: the built-in bad-region presets <<ixMin, ixMax, iyMin, iyMax>>.
BadRegionPreset ==
    [pilatus2m |-> <<1, 776, 826, 894>>,
     pilatus6m |-> <<1, 1230, 1228, 1298>>,
     eiger4m |-> <<1, 1120, 1025, 1140>>]

\* Lines 176-212: the site configuration first, else the detector's preset,
\* else None.
BadRegion(data) ==
    IF data.siteRegion # None THEN data.siteRegion
    ELSE IF data.detectorType \in DOMAIN BadRegionPreset
    THEN Some(BadRegionPreset[data.detectorType])
    ELSE None

\* Lines 253-256.
OverallStartingAngle(data) ==
    data.startingAngle - (data.firstImageNumber - 1) * data.oscillationRange

KeyLine(key) == [key |-> key, value |-> None]

ValueLine(key, value) == [key |-> key, value |-> Some(value)]

\* A plausible slip: bad_zona is written after the beam centre, and the
\* region loses iy_max when the site configuration gives it.
generateCommandsMisplaced(data, tieUp) ==
    <<KeyLine("!"), KeyLine("detector"), KeyLine("library"), KeyLine("nx"),
      KeyLine("ny"), KeyLine("pixel"), KeyLine("exposure"),
      KeyLine("spot_size"), KeyLine("spot_level"),
      KeyLine("detector_distance"), KeyLine("X-ray_wavelength"),
      KeyLine("fraction_polarization"), KeyLine("pixel_min"),
      KeyLine("pixel_max")>>
    \o (IF BadRegion(data) # None
        THEN <<ValueLine("ix_min", BadRegion(data)[1][1]),
               ValueLine("ix_max", BadRegion(data)[1][2]),
               ValueLine("iy_min", BadRegion(data)[1][3])>>
             \o (IF data.siteRegion # None THEN <<>>
                 ELSE <<ValueLine("iy_max", BadRegion(data)[1][4])>>)
        ELSE <<>>)
    \o <<KeyLine("orgx"), KeyLine("orgy")>>
    \o (IF data.badZona THEN <<KeyLine("bad_zona")>> ELSE <<>>)
    \o <<ValueLine("oscillation_range", Fmt3(data.oscillationRange, tieUp)),
         KeyLine("image_step"),
         ValueLine("starting_angle", Fmt3(OverallStartingAngle(data), tieUp)),
         ValueLine("first_image_number", data.firstImageNumber),
         ValueLine("number_images", data.numberImages)>>
    \o (IF data.wedgeNumber # None
        THEN <<ValueLine("wedge_number", data.wedgeNumber[1])>> ELSE <<>>)
    \o <<KeyLine("name_template_image"), KeyLine("end")>>

\* Lines 222-265: the lines of dozor.dat; the value of a line is kept where
\* the model holds it (the geometry of the detector is not modelled).
generateCommands(data, tieUp) ==
    <<KeyLine("!"), KeyLine("detector"), KeyLine("library"), KeyLine("nx"),
      KeyLine("ny"), KeyLine("pixel"), KeyLine("exposure"),
      KeyLine("spot_size"), KeyLine("spot_level"),
      KeyLine("detector_distance"), KeyLine("X-ray_wavelength"),
      KeyLine("fraction_polarization"), KeyLine("pixel_min"),
      KeyLine("pixel_max")>>
    \o (IF BadRegion(data) # None
        THEN <<ValueLine("ix_min", BadRegion(data)[1][1]),
               ValueLine("ix_max", BadRegion(data)[1][2]),
               ValueLine("iy_min", BadRegion(data)[1][3]),
               ValueLine("iy_max", BadRegion(data)[1][4])>>
        ELSE <<>>)
    \o (IF data.badZona THEN <<KeyLine("bad_zona")>> ELSE <<>>)
    \o <<KeyLine("orgx"), KeyLine("orgy"),
         ValueLine("oscillation_range", Fmt3(data.oscillationRange, tieUp)),
         KeyLine("image_step"),
         ValueLine("starting_angle", Fmt3(OverallStartingAngle(data), tieUp)),
         ValueLine("first_image_number", data.firstImageNumber),
         ValueLine("number_images", data.numberImages)>>
    \o (IF data.wedgeNumber # None
        THEN <<ValueLine("wedge_number", data.wedgeNumber[1])>> ELSE <<>>)
    \o <<KeyLine("name_template_image"), KeyLine("end")>>

\* ------------------------------------------------ ExecDozor.parseOutput
\* A plausible slip: the half oscillation range is left out.
RowAngleFromStart(data, imageNumber) ==
    data.startingAngle
    + (imageNumber - data.firstImageNumber)
      * (data.oscillationRange
         - (IF data.overlap = None THEN 0 ELSE data.overlap[1]))

\* Lines 290-296: the rotation angle of an image.
RowAngle(data, imageNumber) ==
    data.startingAngle
    + (imageNumber - data.firstImageNumber)
      * (data.oscillationRange
         - (IF data.overlap = None THEN 0 ELSE data.overlap[1]))
    + data.oscillationRange \div 2

\* Lines 308-314 and 316-335: the assignments of a layout, in the order of
\* the code: the key, the token read and the conversion applied.
ShortLayout ==
    <<[key |-> "spotsNumOf", tok |-> 1, conv |-> "int"],
      [key |-> "spotsIntAver", tok |-> 2, conv |-> "double"],
      [key |-> "spotsRFactor", tok |-> 3, conv |-> "double"],
      [key |-> "spotsResolution", tok |-> 4, conv |-> "double"],
      [key |-> "mainScore", tok |-> 8, conv |-> "double"],
      [key |-> "spotScore", tok |-> 9, conv |-> "double"],
      [key |-> "visibleResolution", tok |-> 10, conv |-> "double"]>>

ExtendedLayout ==
    <<[key |-> "spotsNumOf", tok |-> 1, conv |-> "int"],
      [key |-> "spotsIntAver", tok |-> 2, conv |-> "double"],
      [key |-> "spotsRfactor", tok |-> 3, conv |-> "double"],
      [key |-> "spotsResolution", tok |-> 4, conv |-> "double"],
      [key |-> "powderWilsonScale", tok |-> 5, conv |-> "double"],
      [key |-> "powderWilsonBfactor", tok |-> 6, conv |-> "double"],
      [key |-> "powderWilsonResolution", tok |-> 7, conv |-> "double"],
      [key |-> "powderWilsonCorrelation", tok |-> 8, conv |-> "double"],
      [key |-> "powderWilsonRfactor", tok |-> 9, conv |-> "double"],
      [key |-> "mainScore", tok |-> 10, conv |-> "double"],
      [key |-> "spotScore", tok |-> 11, conv |-> "double"],
      [key |-> "visibleResolution", tok |-> 12, conv |-> "double"]>>

\* A plausible slip: the comparison of the token count turned round.
UseShortLayoutTurned(listLine) ==
    startswithDash(Tok(listLine, 5)) \/ Len(listLine) > 11

\* Line 307 (evaluated only when listLine[5] exists).
UseShortLayout(listLine) ==
    startswithDash(Tok(listLine, 5)) \/ Len(listLine) < 11

\* dict[key] = value.
SetKey(dict, key, value) ==
    [k \in DOMAIN dict \cup {key} |-> IF k = key THEN value ELSE dict[k]]

\* The assignments of a layout from its k-th on, inside the try of line 306:
\* the first assignment that raises (no such token: IndexError; int() of a
\* token that is no integer: ValueError) ends them all.
RECURSIVE Assign(_, _, _, _)
Assign(imageDozor, layout, k, listLine) ==
    IF k > Len(layout) THEN imageDozor
    ELSE IF layout[k].tok >= Len(listLine) THEN imageDozor
    ELSE IF layout[k].conv = "int"
    THEN IF intParses(Tok(listLine, layout[k].tok))
         THEN Assign(SetKey(imageDozor, layout[k].key,
                            Some(TokVal(Tok(listLine, layout[k].tok)))),
                     layout, k + 1, listLine)
         ELSE imageDozor
    ELSE Assign(SetKey(imageDozor, layout[k].key,
                       parseDouble(Tok(listLine, layout[k].tok))),
                layout, k + 1, listLine)

\* The sentinel of line 305.
DefaultVisibleResolution == 40

\* Lines 288-347: the record of a qualifying row. files is the set of image
\* numbers whose .spot file exists in the working directory.
RowRecord(data, listLine, files) ==
    LET imageNumber == TokVal(Tok(listLine, 0))
        imageDozor ==
            [number |-> Some(imageNumber),
             image |-> Some(imageNumber),
             angle |-> Some(RowAngle(data, imageNumber)),
             spotsNumOf |-> None,
             spotsIntAver |-> None,
             spotsResolution |-> None,
             mainScore |-> None,
             spotScore |-> None,
             visibleResolution |-> Some(DefaultVisibleResolution)]
        decoded ==
            IF Len(listLine) < 6 THEN imageDozor
            ELSE IF UseShortLayout(listLine)
            THEN Assign(imageDozor, ShortLayout, 1, listLine)
            ELSE Assign(imageDozor, ExtendedLayout, 1, listLine)
    IN  IF imageNumber \in files
        THEN SetKey(decoded, "spotFile", Some(imageNumber))
        ELSE decoded

\* Line 287.
IsResultRow(line) ==
    Len(line.listLine) > 0 /\ isdigit(Tok(line.listLine, 0))

\* Whether the body of the for loop raises on this line: shlex.split of
\* line 286, or the indexing of line 349.
LineRaises(line) ==
    \/ line.shlexError
    \/ /\ ~IsResultRow(line)
       /\ line.startsWithH
       /\ (Len(line.eqParts) < 2 \/ line.eqParts[2] = <<>>)

\* A plausible slip: the records are kept by image number, so that a row
\* takes the place of an earlier row with the same number.
ParseLineKeyedByNumber(result, data, line, files) ==
    LET rec == RowRecord(data, line.listLine, files)
        same == {i \in 1..Len(result.imageDozor) :
                   result.imageDozor[i].number = rec.number}
    IN  IF ~IsResultRow(line) THEN result
        ELSE IF same = {}
        THEN [result EXCEPT !.imageDozor = Append(@, rec)]
        ELSE [result EXCEPT !.imageDozor[Min(same)] = rec]

\* Lines 284-349: one iteration of the for loop on a line that does not
\* raise.
ParseLine(result, data, line, files) ==
    IF IsResultRow(line)
    THEN [result EXCEPT
            !.imageDozor = Append(@, RowRecord(data, line.listLine, files))]
    ELSE IF line.startsWithH
    THEN SetKey(result, "halfDoseTime", Some(line.eqParts[2][1]))
    ELSE result

\* A plausible slip: the first four lines are skipped, as the comment of
\* line 281 says.
SkipBannerFour(output) ==
    IF Len(output) <= 4 THEN <<>> ELSE SubSeq(output, 5, Len(output))

\* Line 282: the lines after the first six.
SkipBanner(output) ==
    IF Len(output) <= 6 THEN <<>> ELSE SubSeq(output, 7, Len(output))

\* Lines 357-365: the end of parseOutput (no dozor_rd.mtv in the working
\* directory; the plot file has its own decoder).
FinishOutput(result, data) ==
    IF data.doDozorM THEN SetKey(result, "dozorAllFile", Some("dozor_all"))
    ELSE result

RECURSIVE ParseLines(_, _, _, _)
ParseLines(result, data, lines, files) ==
    IF lines = <<>> THEN Some(result)
    ELSE IF LineRaises(Head(lines)) THEN None
    ELSE ParseLines(ParseLine(result, data, Head(lines), files), data,
                    Tail(lines), files)

\* Lines 267-366, for its callers: Some(resultDozor), or None when it raises.
parseOutput(data, output, files) ==
    LET parsed == ParseLines([imageDozor |-> <<>>], data, SkipBanner(output),
                             files)
    IN  IF parsed = None THEN None
        ELSE Some(FinishOutput(parsed[1], data))

\* ------------------------------------------------ the logs of the model
\* The number of lines a log has after its banner is at most MaxLogRows.
MaxLogRows == 2

SeqsUpTo(S, n) == UNION {[1..k -> S] : k \in 0..n}

TextLine == Line(<<WordTok(1), WordTok(2)>>, FALSE, <<<<WordTok(1), WordTok(2)>>>>)

EmptyLine == Line(<<>>, FALSE, <<<<>>>>)

\* "halfDoseTime = 7.5"
HalfDoseLine ==
    Line(<<WordTok(3), WordTok(4), FloatTok(7)>>, TRUE,
         <<<<WordTok(3)>>, <<FloatTok(7)>>>>)

\* "hello": a line that begins with h and has no "=".
HNoEqLine == Line(<<WordTok(5)>>, TRUE, <<<<WordTok(5)>>>>)

\* "halfDoseTime =": nothing after the "=".
HNoValueLine == Line(<<WordTok(3), WordTok(4)>>, TRUE, <<<<WordTok(3)>>, <<>>>>)

\* A line with a quote that is not closed.
QuoteLine ==
    [listLine |-> <<>>, shlexError |-> TRUE, startsWithH |-> FALSE,
     eqParts |-> <<<<WordTok(6)>>>>]

\* A result row for image n with len tokens: token k >= 1 has magnitude
\* 10 + k; token 5 is "----------no" followed by "results----------"
\* (five = "dash"), a negative number ("neg") or a positive one ("pos").
RowTokens(n, len, five) ==
    [i \in 1..len |->
        LET k == i - 1
        IN  IF k = 0 THEN IntTok(n)
            ELSE IF k = 1 THEN IntTok(11)
            ELSE IF k = 5 /\ five = "dash" THEN DashTok(15)
            ELSE IF k = 6 /\ five = "dash" THEN WordTok(16)
            ELSE IF k = 5 /\ five = "neg" THEN NegFloatTok(15)
            ELSE FloatTok(10 + k)]

RowLine(n, len, five) ==
    Line(RowTokens(n, len, five), FALSE, <<RowTokens(n, len, five)>>)

RowNumbers == {1, 2}

RowLines ==
    {RowLine(n, 4, "pos") : n \in RowNumbers}
    \cup {RowLine(n, len, five) :
            n \in RowNumbers, len \in {10, 11, 13},
            five \in {"dash", "neg", "pos"}}

LogLines ==
    RowLines \cup {TextLine, EmptyLine, HalfDoseLine, HNoEqLine,
                   HNoValueLine, QuoteLine}

PlainBanner == [i \in 1..6 |-> TextLine]

\* A banner whose third line looks like a result row.
RowBanner == [PlainBanner EXCEPT ![3] = RowLine(1, 13, "pos")]

\* The inData of the decoder's specifications.
DecoderInData ==
    [startingAngle |-> 40, oscillationRange |-> 4, overlap |-> None,
     firstImageNumber |-> 1, numberImages |-> 2, doDozorM |-> FALSE,
     detectorType |-> "pilatus2m", siteRegion |-> None, badZona |-> FALSE,
     wedgeNumber |-> None, h5 |-> FALSE]

\* ------------------------------------------------ ExecDozor.run as a process
BatchIdle ==
    /\ listImage = <<>>
    /\ batchSize = 1
    /\ overlap = FALSE
    /\ listImageSorted = <<>>
    /\ imageIndex = 1
    /\ batchLoop = BatchLocals
    /\ pcBatch = "idle"

ExecIdle ==
    /\ inData = DecoderInData
    /\ toolLog = <<>>
    /\ spotFiles = {}
    /\ original = <<>>
    /\ replaced = None
    /\ commands = <<>>
    /\ listOutput = <<>>
    /\ lineIndex = 1
    /\ resultDozor = [imageDozor |-> <<>>]
    /\ pcExec = "idle"

\* An inData of ControlDozor: an explicit list with the image 1.
IdleInData ==
    [image |-> Some(<<1>>), startNo |-> None, endNo |-> None,
     dataCollectionId |-> None, dataCollection |-> None,
     configBatchSize |-> None, batchSize |-> None, overlap |-> None,
     doDozorM |-> FALSE, returnSpotList |-> FALSE, h5 |-> FALSE]

RunIdle ==
    /\ ctlInData = IdleInData
    /\ hasOverlap = FALSE
    /\ ctlOverlap = 0
    /\ dictImage = <<>>
    /\ listAllBatches = <<>>
    /\ batchNo = 1
    /\ dozorTasks = <<>>
    /\ outData = [imageQualityIndicators |-> <<>>]
    /\ listDozorAllFile = <<>>
    /\ detectorType = None
    /\ pcRun = "idle"

IdxIdle ==
    /\ listSubWedge = <<>>
    /\ startIndex = 1
    /\ listControlDozor = <<>>
    /\ completed = <<>>
    /\ joinIndex = 1
    /\ listOutDataControlDozor = <<>>
    /\ listDozorSpotFile = <<>>
    /\ pcIdx = "idle"

\* Lines 380-387: the locals of generatePngPlots before the loop.
PlotLocals ==
    [listPlots |-> <<>>, dictPlotList |-> <<>>, dictSubPlot |-> None,
     index |-> 0, raised |-> FALSE]

PlotIdle ==
    /\ listLines = <<>>
    /\ plotDocument = None
    /\ plotLoop = PlotLocals
    /\ listXSFile = <<>>
    /\ pcPlot = "idle"

\* One task is under way and no other.
BatchOnly == ExecIdle /\ RunIdle /\ IdxIdle /\ PlotIdle

ExecOnly == BatchIdle /\ RunIdle /\ IdxIdle /\ PlotIdle

RunOnly == BatchIdle /\ ExecIdle /\ IdxIdle /\ PlotIdle

IdxOnly == BatchIdle /\ ExecIdle /\ RunIdle /\ PlotIdle

PlotOnly == BatchIdle /\ ExecIdle /\ RunIdle /\ IdxIdle

\* The state in which ExecDozor.run is entered.
ExecStart ==
    /\ commands = <<>>
    /\ listOutput = <<>>
    /\ lineIndex = 1
    /\ resultDozor = [imageDozor |-> <<>>]
    /\ pcExec = "generate"

\* Lines 142-144.
ExecGenerate ==
    /\ pcExec = "generate"
    /\ \E tieUp \in BOOLEAN : commands' = generateCommands(inData, tieUp)
    /\ pcExec' = "execute"
    /\ UNCHANGED <<inData, toolLog, spotFiles, original, replaced,
                   listOutput, lineIndex, resultDozor>>
    /\ UNCHANGED othersExec

\* Lines 165-166 and 271-282: the program runs, its log is read and split.
ExecRunCommandLine ==
    /\ pcExec = "execute"
    /\ listOutput' = SkipBanner(toolLog)
    /\ lineIndex' = 1
    /\ resultDozor' = [imageDozor |-> <<>>]
    /\ pcExec' = "parse"
    /\ UNCHANGED <<inData, toolLog, spotFiles, original, replaced, commands>>
    /\ UNCHANGED othersExec

\* Lines 284-349: one iteration of the for loop; an exception of the body
\* leaves parseOutput.
ExecParseLine ==
    /\ pcExec = "parse"
    /\ lineIndex <= Len(listOutput)
    /\ IF LineRaises(listOutput[lineIndex])
       THEN /\ pcExec' = "raised"
            /\ UNCHANGED <<lineIndex, resultDozor>>
       ELSE /\ resultDozor' = ParseLine(resultDozor, inData,
                                        listOutput[lineIndex], spotFiles)
            /\ lineIndex' = lineIndex + 1
            /\ UNCHANGED pcExec
    /\ UNCHANGED <<inData, toolLog, spotFiles, original, replaced, commands,
                   listOutput>>
    /\ UNCHANGED othersExec

\* Lines 350-366.
ExecReturn ==
    /\ pcExec = "parse"
    /\ lineIndex > Len(listOutput)
    /\ resultDozor' = FinishOutput(resultDozor, inData)
    /\ pcExec' = "returned"
    /\ UNCHANGED <<inData, toolLog, spotFiles, original, replaced, commands,
                   listOutput, lineIndex>>
    /\ UNCHANGED othersExec

NextExec == ExecGenerate \/ ExecRunCommandLine \/ ExecParseLine \/ ExecReturn

\* ---- the decoder on every log of the model
InitParse ==
    /\ ExecOnly
    /\ inData = DecoderInData
    /\ toolLog \in {banner \o body :
                      banner \in {PlainBanner, RowBanner,
                                  SubSeq(RowBanner, 1, 4)},
                      body \in SeqsUpTo(LogLines, MaxLogRows)}
    /\ spotFiles \in {{}, {1}}
    /\ original = toolLog
    /\ replaced = None
    /\ ExecStart

SpecParse == InitParse /\ [][NextExec]_vars

\* ---- generateCommands and parseOutput on every geometry of the model
\* Angles are drawn from the even numbers of -2*MaxAngle..2*MaxAngle (the
\* oscillation range and the overlap from 0..2*MaxAngle), the first image
\* number from 1..MaxFirstImageNumber.
MaxAngle == 2
MaxFirstImageNumber == 3

\* The log of a run that went well: a row for every image of the batch.
GoodLog(first, count) ==
    PlainBanner \o [i \in 1..count |-> RowLine(first + i - 1, 13, "pos")]
    \o <<EmptyLine>>

InitAngle ==
    /\ ExecOnly
    /\ inData \in
          {[DecoderInData EXCEPT
               !.startingAngle = 2 * a, !.oscillationRange = 2 * o,
               !.overlap = ov, !.firstImageNumber = first,
               !.numberImages = count, !.doDozorM = m] :
              a \in (0 - MaxAngle)..MaxAngle, o \in 0..MaxAngle,
              ov \in {None} \cup {Some(2 * x) : x \in 0..MaxAngle},
              first \in 1..MaxFirstImageNumber, count \in 1..2,
              m \in BOOLEAN}
    /\ toolLog = GoodLog(inData.firstImageNumber, inData.numberImages)
    /\ spotFiles = {}
    /\ original = toolLog
    /\ replaced = None
    /\ ExecStart

SpecAngle == InitAngle /\ [][NextExec]_vars

\* ---- generateCommands on every configuration of the model
\* The detectors with a preset of the bad region and one without
\* (lines 53-68 and 197-212), the site configuration giving a region or
\* not (lines 186-196), bad_zona configured or not (line 242), the wedge
\* number given or not (line 261), cbf and h5 templates (line 213).
DetectorTypes == {"pilatus2m", "pilatus6m", "eiger4m", "eiger16m"}

SiteRegions == {None, Some(<<2, 3, 4, 5>>)}

InitCommands ==
    /\ ExecOnly
    /\ inData \in
          {[DecoderInData EXCEPT
               !.detectorType = detector, !.siteRegion = region,
               !.badZona = zona, !.wedgeNumber = wedge, !.h5 = h5,
               !.numberImages = count] :
              detector \in DetectorTypes, region \in SiteRegions,
              zona \in BOOLEAN, wedge \in {None, Some(1)},
              h5 \in BOOLEAN, count \in 1..2}
    /\ toolLog = GoodLog(inData.firstImageNumber, inData.numberImages)
    /\ spotFiles = {}
    /\ original = toolLog
    /\ replaced = None
    /\ ExecStart

SpecCommands == InitCommands /\ [][NextExec]_vars

\* ---- the decoder on a log and on the log with one token replaced
\* The tokens that are no numbers: "abc" and "-abc".
BadTokens == {WordTok(99), DashTok(99)}

ToleranceLines ==
    {RowLine(n, 10, "dash") : n \in RowNumbers}
    \cup {RowLine(n, 11, "dash") : n \in RowNumbers}
    \cup {RowLine(n, 13, "pos") : n \in RowNumbers}
    \cup {TextLine}

\* The places of a log where a token can be replaced: a result row after
\* the banner and a token of it other than the image number.
Replacements(output) ==
    {[line |-> i, pos |-> p, bad |-> b] :
        i \in {j \in 1..Len(SkipBanner(output)) :
                 IsResultRow(SkipBanner(output)[j])},
        p \in 1..12, b \in BadTokens}

ReplaceToken(output, r) ==
    LET i == 6 + r.line
        toks == [output[i].listLine EXCEPT ![r.pos + 1] = r.bad]
    IN  [output EXCEPT ![i] = Line(toks, FALSE, <<toks>>)]

InitTolerance ==
    /\ ExecOnly
    /\ inData = DecoderInData
    /\ spotFiles = {}
    /\ original \in {PlainBanner \o body :
                       body \in SeqsUpTo(ToleranceLines, MaxLogRows)}
    /\ replaced \in {None} \cup
          {Some(r) : r \in {x \in Replacements(original) :
                              x.pos < Len(original[6 + x.line].listLine)}}
    /\ toolLog = IF replaced = None THEN original
                 ELSE ReplaceToken(original, replaced[1])
    /\ ExecStart

SpecTolerance == InitTolerance /\ [][NextExec]_vars

\* ---- the function as a process, one loop iteration per step
InitBatch ==
    /\ listImage \in UNION {Orderings(S) : S \in SUBSET (1..MaxImageNo)}
    /\ batchSize \in 1..MaxBatchSize
    /\ overlap \in BOOLEAN
    /\ listImageSorted = sorted(listImage)
    /\ imageIndex = 1
    /\ batchLoop = BatchLocals
    /\ pcBatch = "loop"
    /\ BatchOnly

BatchIterate ==
    /\ pcBatch = "loop"
    /\ imageIndex <= Len(listImageSorted)
    /\ batchLoop' = LoopBody(batchLoop, listImageSorted[imageIndex], batchSize)
    /\ imageIndex' = imageIndex + 1
    /\ UNCHANGED <<listImage, batchSize, overlap, listImageSorted, pcBatch>>
    /\ UNCHANGED othersBatch

BatchLoopEnd ==
    /\ pcBatch = "loop"
    /\ imageIndex > Len(listImageSorted)
    /\ batchLoop' = FinalAppend(batchLoop)
    /\ pcBatch' = "split"
    /\ UNCHANGED <<listImage, batchSize, overlap, listImageSorted, imageIndex>>
    /\ UNCHANGED othersBatch

BatchReturn ==
    /\ pcBatch = "split"
    /\ batchLoop' = [batchLoop EXCEPT
                       !.listAllBatches = OverlapSplit(@, overlap)]
    /\ pcBatch' = "done"
    /\ UNCHANGED <<listImage, batchSize, overlap, listImageSorted, imageIndex>>
    /\ UNCHANGED othersBatch

NextBatch == BatchIterate \/ BatchLoopEnd \/ BatchReturn

SpecBatch == InitBatch /\ [][NextBatch]_vars

\* The batches returned.
Returned == batchLoop.listAllBatches

\* ------------------------------------------------------- ControlDozor.run
\* Line 74.
MAX_BATCH_SIZE == 5000

\* One degree, in the unit of the angles of the model.
Degree == 4 * 1000

\* Lines 1032-1050: the keys of the dictionary, in the order of insertion.
createImageDictFromISPyB(dataCollection) ==
    [i \in 1..dataCollection.numberOfImages |->
        dataCollection.startImageNumber + i - 1]

\* Lines 1002-1030: the keys of the dictionary, in the order of insertion.
createImageDict(data) ==
    IF data.image # None /\ Len(data.image[1]) > 0 THEN data.image[1]
    ELSE [i \in 1..(data.endNo[1] - data.startNo[1] + 1) |->
             data.startNo[1] + i - 1]

\* Lines 655-680, with the fields of self it leaves behind; hasOverlap and
\* overlap are those of __init__ (lines 501-502) when no branch sets them.
determineBatchsize(data) ==
    IF data.dataCollectionId # None
    THEN LET dataCollection == data.dataCollection
             configured == IF data.configBatchSize = None
                           THEN dataCollection.numberOfImages
                           ELSE data.configBatchSize[1]
             large == /\ dataCollection.overlap # None
                      /\ Abs(dataCollection.overlap[1]) > Degree
         IN  [batchSize |-> IF configured > MAX_BATCH_SIZE
                            THEN MAX_BATCH_SIZE ELSE configured,
              hasOverlap |-> large,
              overlap |-> IF large THEN dataCollection.overlap[1] ELSE 0,
              dictImage |-> createImageDictFromISPyB(dataCollection)]
    ELSE [batchSize |-> IF data.batchSize # None THEN data.batchSize[1]
                        ELSE MAX_BATCH_SIZE,
          hasOverlap |-> FALSE,
          overlap |-> 0,
          dictImage |-> createImageDict(data)]

\* The header of an image, as ReadImageHeader reports it (lines 725-735).
HeaderOscillationWidth == 2 * 2

ReadImageHeader(imageNumber) ==
    [detectorType |-> "pilatus2m",
     oscillationWidth |-> HeaderOscillationWidth,
     rotationAxisStart |-> HeaderOscillationWidth * (imageNumber - 1)]

\* "{0:04d}".format(n) for n >= 0: the decimal digits of n, with zeros in
\* front up to four characters.
DigitChars == <<"0", "1", "2", "3", "4", "5", "6", "7", "8", "9">>

RECURSIVE Decimal(_)
Decimal(n) ==
    IF n < 10 THEN <<DigitChars[n + 1]>>
    ELSE Append(Decimal(n \div 10), DigitChars[(n % 10) + 1])

ZeroPadded4(n) ==
    [i \in 1..(4 - Len(Decimal(n))) |-> "0"] \o Decimal(n)

SuffixFormat(first, last) == ZeroPadded4(first) \o <<"_">> \o ZeroPadded4(last)

\* A plausible slip: the suffix is made after line 714 has set the
\* image number to 1.
DozorSuffixAfterReset(data, listBatch, has) ==
    LET imageNumber == IF data.h5 /\ has THEN 1 ELSE listBatch[1]
    IN  SuffixFormat(imageNumber, imageNumber + Len(listBatch) - 1)

\* Lines 696-703: the working directory suffix of the ExecDozor task.
DozorSuffix(data, listBatch, has) ==
    SuffixFormat(listBatch[1], listBatch[1] + Len(listBatch) - 1)

\* A plausible slip: the image number is set to 1 for every h5 image, with
\* overlap or without.
DozorInDataAlwaysReset(data, listBatch, ov, has) ==
    LET imageNumberOrig == listBatch[1]
        imageNumber == IF data.h5 THEN 1 ELSE imageNumberOrig
        header == ReadImageHeader(imageNumberOrig)
    IN  [DecoderInData EXCEPT
            !.detectorType = header.detectorType,
            !.oscillationRange = header.oscillationWidth,
            !.startingAngle = header.rotationAxisStart,
            !.firstImageNumber = imageNumber,
            !.numberImages = Len(listBatch),
            !.overlap = Some(ov),
            !.doDozorM = data.doDozorM,
            !.h5 = data.h5]

\* Lines 693-769: the inData of ExecDozor.

DozorInData(data, listBatch, ov, has) ==
    LET imageNumberOrig == listBatch[1]
        imageNumber == IF data.h5 /\ has THEN 1 ELSE imageNumberOrig
        header == ReadImageHeader(imageNumberOrig)
    IN  [DecoderInData EXCEPT
            !.detectorType = header.detectorType,
            !.oscillationRange = header.oscillationWidth,
            !.startingAngle = header.rotationAxisStart,
            !.firstImageNumber = imageNumber,
            !.numberImages = Len(listBatch),
            !.overlap = Some(ov),
            !.doDozorM = data.doDozorM,
            !.h5 = data.h5]

\* What an execution of ExecDozor can come to: it fails, or the program
\* writes a row for every image of the batch, in order or in reverse order.
Outcomes == {"failure", "rows", "reversed"}

ReversedLog(first, count) ==
    PlainBanner \o [i \in 1..count |-> RowLine(first + count - i, 13, "pos")]
    \o <<EmptyLine>>

DozorLog(data, outcome) ==
    IF outcome = "reversed"
    THEN ReversedLog(data.firstImageNumber, data.numberImages)
    ELSE GoodLog(data.firstImageNumber, data.numberImages)

\* Lines 776-780.
RestoreNumber(result, data, imageNumberOrig) ==
    IF /\ Len(result.imageDozor) = 1
       /\ data.h5
       /\ result.imageDozor[1].number # Some(imageNumberOrig)
    THEN [result EXCEPT !.imageDozor[1].number = Some(imageNumberOrig)]
    ELSE result

\* Lines 682-781: the ExecDozor task that was executed, with what
\* runDozorTask returns (outData is None for a failed task).
runDozorTask(data, listBatch, ov, has, outcome) ==
    LET inDataDozor == DozorInData(data, listBatch, ov, has)
        parsed == parseOutput(inDataDozor, DozorLog(inDataDozor, outcome),
                              {inDataDozor.firstImageNumber})
        failure == outcome = "failure" \/ parsed = None
    IN  [batch |-> listBatch,
         inData |-> inDataDozor,
         workingDirectorySuffix |-> DozorSuffix(data, listBatch, has),
         failure |-> failure,
         outData |-> IF failure THEN None
                     ELSE Some(RestoreNumber(parsed[1], inDataDozor,
                                             listBatch[1])),
         detectorType |-> Some(inDataDozor.detectorType)]

\* Lines 586-611.
ImageQualityIndicators(imageDozor, returnSpotList) ==
    LET indicators ==
            [angle |-> imageDozor.angle,
             number |-> imageDozor.number,
             image |-> imageDozor.image,
             dozorScore |-> imageDozor.mainScore,
             dozorSpotScore |-> imageDozor.spotScore,
             dozorSpotsNumOf |-> imageDozor.spotsNumOf,
             dozorSpotsIntAver |-> imageDozor.spotsIntAver,
             dozorSpotsResolution |-> imageDozor.spotsResolution,
             dozorVisibleResolution |-> imageDozor.visibleResolution]
        withFile == SetKey(indicators, "dozorSpotFile", imageDozor.spotFile)
    IN  IF "spotFile" \notin DOMAIN imageDozor THEN indicators
        ELSE IF ~returnSpotList THEN withFile
        ELSE SetKey(SetKey(withFile, "dozorSpotList", imageDozor.spotFile),
                    "dozorSpotListShape", imageDozor.spotFile)

\* The records of one task, as run appends them.
TaskIndicators(outDataDozor, returnSpotList) ==
    IF outDataDozor = None THEN <<>>
    ELSE [i \in 1..Len(outDataDozor[1].imageDozor) |->
             ImageQualityIndicators(outDataDozor[1].imageDozor[i],
                                    returnSpotList)]

\* A plausible slip: a failed batch empties the list.
CollectLosesEarlier(indicators, outDataDozor, returnSpotList) ==
    IF outDataDozor = None THEN <<>>
    ELSE indicators \o TaskIndicators(outDataDozor, returnSpotList)

\* Lines 584-611: the list after the task of one batch.
Collect(indicators, outDataDozor, returnSpotList) ==
    IF outDataDozor = None THEN indicators
    ELSE indicators \o TaskIndicators(outDataDozor, returnSpotList)

\* Lines 783-915: createGnuPlotFile formats six fields of every record and
\* determinePlotParameters subtracts the smallest image number from the
\* largest; a null among them is a TypeError.
PlottedKeys == {"number", "angle", "dozorSpotsNumOf", "dozorScore",
                "dozorSpotScore", "dozorVisibleResolution"}

makePlotRaises(indicators) ==
    \/ indicators = <<>>
    \/ \E i \in 1..Len(indicators) :
          \E key \in PlottedKeys : indicators[i][key] = None

\* ---- run as a process, one batch per step
\* Image numbers are drawn from 1..MaxRunImage, the batch size of the input
\* from 1..MaxRunBatchSize.
MaxRunImage == 4
MaxRunBatchSize == 2

\* The descending list of the numbers of S.
RECURSIVE Descending(_)
Descending(S) ==
    IF S = {} THEN <<>>
    ELSE LET m == CHOOSE x \in S : \A y \in S : y <= x
         IN  <<m>> \o Descending(S \ {m})

\* The inputs without a data collection id: an explicit list or a template
\* with a range, with or without a batch size.
ExplicitInputs ==
    {[IdleInData EXCEPT !.image = Some(Descending(S))] :
        S \in (SUBSET (1..MaxRunImage)) \ {{}}}

TemplateInputs ==
    {[IdleInData EXCEPT !.image = None, !.startNo = Some(a),
                        !.endNo = Some(a + n - 1)] :
        a \in 1..MaxRunImage, n \in 1..MaxRunImage}

LocalInputs ==
    {[base EXCEPT !.batchSize = size] :
        base \in ExplicitInputs
                 \cup {x \in TemplateInputs : x.endNo[1] <= MaxRunImage},
        size \in {None} \cup {Some(k) : k \in 1..MaxRunBatchSize}}

\* The inputs with a data collection id, and what ISPyB and the
\* configuration hold for it.
DataCollections ==
    {[startImageNumber |-> a, numberOfImages |-> n, overlap |-> ov] :
        a \in 1..MaxRunImage, n \in 1..MaxRunImage,
        ov \in {None, Some(0), Some(Degree), Some(0 - 2 * Degree)}}

ISPyBInputs ==
    {[IdleInData EXCEPT !.image = None, !.dataCollectionId = Some(1),
                        !.dataCollection = dc, !.configBatchSize = size] :
        dc \in {x \in DataCollections :
                  x.startImageNumber + x.numberOfImages - 1 <= MaxRunImage},
        size \in {None, Some(MaxRunBatchSize)}}

\* doDozorM, h5 and returnSpotList: every two of the flags take every pair
\* of values.
FlagCombinations ==
    {<<FALSE, FALSE, FALSE>>, <<TRUE, FALSE, TRUE>>,
     <<FALSE, TRUE, TRUE>>, <<TRUE, TRUE, FALSE>>}

InitRun ==
    /\ RunOnly
    /\ ctlInData \in
          {[base EXCEPT !.overlap = ov, !.doDozorM = flags[1],
                        !.h5 = flags[2], !.returnSpotList = flags[3]] :
              base \in LocalInputs \cup ISPyBInputs,
              ov \in {None, Some(0), Some(2)},
              flags \in FlagCombinations}
    /\ hasOverlap = FALSE
    /\ ctlOverlap = 0
    /\ dictImage = <<>>
    /\ listAllBatches = <<>>
    /\ batchNo = 1
    /\ dozorTasks = <<>>
    /\ outData = [imageQualityIndicators |-> <<>>]
    /\ listDozorAllFile = <<>>
    /\ detectorType = None
    /\ pcRun = "start"

\* A plausible slip: the test of the overlap of line 566 is left out.
hasOverlapFromCatalog(determined, ov) == determined.hasOverlap

\* Lines 566-567: self.hasOverlap after "if overlap != 0".
hasOverlapChecked(determined, ov) == determined.hasOverlap \/ ov # 0

\* Lines 555-573.
RunStart ==
    /\ pcRun = "start"
    /\ LET determined == determineBatchsize(ctlInData)
           ov == IF ctlInData.overlap # None THEN ctlInData.overlap[1]
                 ELSE determined.overlap
           has == hasOverlapChecked(determined, ov)
       IN  /\ ctlOverlap' = ov
           /\ hasOverlap' = has
           /\ dictImage' = determined.dictImage
           /\ listAllBatches' = createListOfBatches(determined.dictImage,
                                                    determined.batchSize, has)
    /\ outData' = [imageQualityIndicators |-> <<>>]
    /\ batchNo' = 1
    /\ pcRun' = "batches"
    /\ UNCHANGED <<ctlInData, dozorTasks, listDozorAllFile, detectorType>>
    /\ UNCHANGED othersRun

\* Lines 574-613: one iteration of the for loop.
RunBatch ==
    /\ pcRun = "batches"
    /\ batchNo <= Len(listAllBatches)
    /\ \E outcome \in Outcomes :
          LET task == runDozorTask(ctlInData, listAllBatches[batchNo],
                                   ctlOverlap, hasOverlap, outcome)
          IN  /\ dozorTasks' = Append(dozorTasks, task)
              /\ detectorType' = task.detectorType
              /\ outData' =
                    [outData EXCEPT !.imageQualityIndicators =
                        Collect(@, task.outData, ctlInData.returnSpotList)]
              /\ listDozorAllFile' =
                    IF task.outData # None /\ ctlInData.doDozorM
                    THEN Append(listDozorAllFile,
                                task.outData[1].dozorAllFile)
                    ELSE listDozorAllFile
    /\ batchNo' = batchNo + 1
    /\ UNCHANGED <<ctlInData, hasOverlap, ctlOverlap, dictImage,
                   listAllBatches, pcRun>>
    /\ UNCHANGED othersRun

\* Lines 614-653: the loop is over; the plot is made for a data collection
\* id, and an exception of makePlot leaves run.
RunFinish ==
    /\ pcRun = "batches"
    /\ batchNo > Len(listAllBatches)
    /\ IF /\ ctlInData.dataCollectionId # None
          /\ makePlotRaises(outData.imageQualityIndicators)
       THEN /\ pcRun' = "raised"
            /\ UNCHANGED outData
       ELSE /\ pcRun' = "returned"
            /\ outData' =
                  IF ctlInData.doDozorM
                  THEN SetKey(SetKey(outData, "detectorType", detectorType),
                              "dozorAllFile", Some("dozor_all"))
                  ELSE SetKey(outData, "detectorType", detectorType)
    /\ UNCHANGED <<ctlInData, hasOverlap, ctlOverlap, dictImage,
                   listAllBatches, batchNo, dozorTasks, listDozorAllFile,
                   detectorType>>
    /\ UNCHANGED othersRun

NextRun == RunStart \/ RunBatch \/ RunFinish

SpecRun == InitRun /\ [][NextRun]_vars

\* ------------------------------------------ ControlIndexing.runControlDozor
\* What a ControlDozor task started by runControlDozor can come to: its run
\* raises, or it returns after an ExecDozor execution that wrote its rows or
\* that failed.
UnitOutcomes == {"raised", "rows", "failure"}

\* The outData of ControlDozor for the inData of line 131, one image given
\* by its path (ControlDozor.run, lines 553-653, for a single image).
ControlDozorOutData(imageNumber, outcome) ==
    LET data == [IdleInData EXCEPT !.image = Some(<<imageNumber>>)]
        determined == determineBatchsize(data)
        batches == createListOfBatches(determined.dictImage,
                                       determined.batchSize, FALSE)
        task == runDozorTask(data, batches[1], 0, FALSE, outcome)
    IN  [imageQualityIndicators |-> Collect(<<>>, task.outData, FALSE),
         detectorType |-> task.detectorType]

\* AbstractTask.start: the task runs on its own from here on.
StartedUnit(imageNumber) ==
    [image |-> imageNumber, state |-> "running", outData |-> None]

\* The end of a task: isSuccess() and outData as the joining caller reads
\* them.
TerminatedUnit(unit, outcome) ==
    IF outcome = "raised"
    THEN [unit EXCEPT !.state = "failure"]
    ELSE [unit EXCEPT !.state = "success",
                      !.outData = Some(ControlDozorOutData(unit.image,
                                                           outcome))]

\* A plausible slip: the tasks are joined as they terminate.
JoinOrderOfCompletion(started, done) == done

\* Line 138: the tasks are joined in the order of listControlDozor.
JoinOrder(started, done) == [i \in 1..Len(started) |-> i]

\* A plausible slip: the loop is left after the first join.
JoinLoopOverAfterFirst(index, started) == index > 1

\* Line 138: the loop is over when every task of the list was joined.
JoinLoopOver(index, started) == index > Len(started)

\* A plausible slip: the output is appended whatever became of the task.
JoinAppendAlways(outputs, unit) ==
    Append(outputs, IF unit.outData = None
                    THEN [imageQualityIndicators |-> <<>>,
                          detectorType |-> None]
                    ELSE unit.outData[1])

\* Lines 140-141.
JoinAppend(outputs, unit) ==
    IF unit.state = "success" THEN Append(outputs, unit.outData[1])
    ELSE outputs

\* The images of the sub-wedges in the order of the loops of lines 127-129.
SubWedgeImages == Flatten(listSubWedge)

\* ---- runControlDozor as a process next to the tasks it starts
\* Up to MaxIndexingImages images, in one sub-wedge or in two; the images are
\* numbered downwards, so that the order of the numbers is not the order of
\* the list.
MaxIndexingImages == 3

SubWedgeLists ==
    {IF cut = 0 THEN <<[i \in 1..n |-> n + 1 - i]>>
     ELSE <<[i \in 1..cut |-> n + 1 - i],
            [i \in 1..(n - cut) |-> n - cut + 1 - i]>> :
        n \in 1..MaxIndexingImages, cut \in 0..(MaxIndexingImages - 1)}

InitIndexing ==
    /\ IdxOnly
    /\ listSubWedge \in {l \in SubWedgeLists : \A i \in 1..Len(l) : l[i] # <<>>}
    /\ startIndex = 1
    /\ listControlDozor = <<>>
    /\ completed = <<>>
    /\ joinIndex = 1
    /\ listOutDataControlDozor = <<>>
    /\ listDozorSpotFile = <<>>
    /\ pcIdx = "start"

\* Lines 127-137: one iteration of the inner loop; the task is started.
IdxStartUnit ==
    /\ pcIdx = "start"
    /\ startIndex <= Len(SubWedgeImages)
    /\ listControlDozor' =
          Append(listControlDozor, StartedUnit(SubWedgeImages[startIndex]))
    /\ startIndex' = startIndex + 1
    /\ UNCHANGED <<listSubWedge, completed, joinIndex,
                   listOutDataControlDozor, listDozorSpotFile, pcIdx>>
    /\ UNCHANGED othersIdx

\* Line 138 is reached.
IdxStartOver ==
    /\ pcIdx = "start"
    /\ startIndex > Len(SubWedgeImages)
    /\ pcIdx' = "join"
    /\ UNCHANGED <<listSubWedge, startIndex, listControlDozor, completed,
                   joinIndex, listOutDataControlDozor, listDozorSpotFile>>
    /\ UNCHANGED othersIdx

\* A started task terminates, at any time after its start.
UnitTerminate ==
    /\ \E k \in 1..Len(listControlDozor) :
          /\ listControlDozor[k].state = "running"
          /\ \E outcome \in UnitOutcomes :
                listControlDozor' =
                    [listControlDozor EXCEPT
                        ![k] = TerminatedUnit(@, outcome)]
          /\ completed' = Append(completed, k)
    /\ UNCHANGED <<listSubWedge, startIndex, joinIndex,
                   listOutDataControlDozor, listDozorSpotFile, pcIdx>>
    /\ UNCHANGED othersIdx

\* Lines 138-141: one iteration of the second loop; join returns when the
\* task has terminated.
IdxJoin ==
    /\ pcIdx = "join"
    /\ ~JoinLoopOver(joinIndex, listControlDozor)
    /\ joinIndex <= Len(JoinOrder(listControlDozor, completed))
    /\ LET unit == listControlDozor[JoinOrder(listControlDozor,
                                              completed)[joinIndex]]
       IN  /\ unit.state # "running"
           /\ listOutDataControlDozor' =
                 JoinAppend(listOutDataControlDozor, unit)
    /\ joinIndex' = joinIndex + 1
    /\ UNCHANGED <<listSubWedge, startIndex, listControlDozor, completed,
                   listDozorSpotFile, pcIdx>>
    /\ UNCHANGED othersIdx

\* Line 142.
IdxReturn ==
    /\ pcIdx = "join"
    /\ JoinLoopOver(joinIndex, listControlDozor)
    /\ pcIdx' = "returned"
    /\ UNCHANGED <<listSubWedge, startIndex, listControlDozor, completed,
                   joinIndex, listOutDataControlDozor, listDozorSpotFile>>
    /\ UNCHANGED othersIdx

\* ControlIndexing.run, lines 65-71: the spot files of the outputs.
SpotFilesOf(outputs) ==
    LET withFile ==
            SelectSeq(outputs,
                      LAMBDA o : "dozorSpotFile"
                                    \in DOMAIN o.imageQualityIndicators[1])
    IN  [i \in 1..Len(withFile) |->
            withFile[i].imageQualityIndicators[1].dozorSpotFile]

\* ControlIndexing.run, lines 64-82: the caller goes on to the indexing; the
\* index 0 of line 67 is an IndexError on an output without records.
IdxProceed ==
    /\ pcIdx = "returned"
    /\ IF \E i \in 1..Len(listOutDataControlDozor) :
             listOutDataControlDozor[i].imageQualityIndicators = <<>>
       THEN /\ pcIdx' = "raised"
            /\ UNCHANGED listDozorSpotFile
       ELSE /\ pcIdx' = "indexing"
            /\ listDozorSpotFile' = SpotFilesOf(listOutDataControlDozor)
    /\ UNCHANGED <<listSubWedge, startIndex, listControlDozor, completed,
                   joinIndex, listOutDataControlDozor>>
    /\ UNCHANGED othersIdx

NextIndexing ==
    \/ IdxStartUnit
    \/ IdxStartOver
    \/ UnitTerminate
    \/ IdxJoin
    \/ IdxReturn
    \/ IdxProceed

SpecIndexing == InitIndexing /\ [][NextIndexing]_vars

\* ------------------------------------------------ ExecDozor.generatePngPlots
\* A line of the plot file, by what the decoder reads of it: the character
\* it starts with ("$", "%", "#" or "" for any other), split("'")[1] when
\* the line has a quote, the label before the "=" and the value after it
\* when it has a "=", split("#")[1], and its tokens.
PlotLine(start, quoted, label, value, name, tokens) ==
    [start |-> start, quoted |-> quoted, label |-> label, value |-> value,
     name |-> name, tokens |-> tokens]

\* "$ DATA=CURVE2D"
DollarLine == PlotLine("$", None, "$ DATA", Some("CURVE2D"), "", <<WordTok(1)>>)

\* "% toplabel = 'Plot1'": the line after a "$" line, read for its quoted
\* text.
NameLine(text) ==
    PlotLine("%", Some(text), "toplabel", Some(text), "", <<WordTok(2)>>)

\* "'Plot1'": a quoted text and nothing else.
QuotedLine(text) == PlotLine("", Some(text), "", None, "", <<WordTok(6)>>)

\* "% xlabel = 'X'"
AttrLine(label, value) ==
    PlotLine("%", Some(value), label, Some(value), "", <<WordTok(3)>>)

\* "% xlabel": an attribute line without "=".
AttrNoEqLine(label) ==
    PlotLine("%", None, label, None, "", <<WordTok(4)>>)

\* "# Series A"
HashLine(name) == PlotLine("#", None, "", None, name, <<WordTok(5)>>)

\* A line of tokens, "1.0 2.0" for <<FloatTok(1), FloatTok(2)>>.
DataLine(tokens) == PlotLine("", None, "", None, "", tokens)

\* listLines[index], for an index from 0.
LineAt(lines, index) == lines[index + 1]

\* dict[label] = value, a dictionary being the set of its items.
SetAttr(attrs, label, value) ==
    {item \in attrs : item[1] # label} \cup {<<label, value>>}

Labels(attrs) == {item[1] : item \in attrs}

\* A plausible slip: an attribute line without "=" is passed over.
RECURSIVE AttrRunSkipsBad(_, _, _)
AttrRunSkipsBad(lines, index, attrs) ==
    IF index >= Len(lines)
    THEN [attrs |-> attrs, index |-> index, raised |-> TRUE]
    ELSE IF LineAt(lines, index).start # "%"
    THEN [attrs |-> attrs, index |-> index, raised |-> FALSE]
    ELSE IF LineAt(lines, index).value = None
    THEN AttrRunSkipsBad(lines, index + 1, attrs)
    ELSE AttrRunSkipsBad(lines, index + 1,
                         SetAttr(attrs, LineAt(lines, index).label,
                                 LineAt(lines, index).value[1]))

\* Lines 398-407 and 414-423: the while loop over the "%" lines from index
\* on. listLines[index] past the last line is an IndexError, and so is
\* listLine[1] of a line without "=".
RECURSIVE AttrRun(_, _, _)
AttrRun(lines, index, attrs) ==
    IF index >= Len(lines)
    THEN [attrs |-> attrs, index |-> index, raised |-> TRUE]
    ELSE IF LineAt(lines, index).start # "%"
    THEN [attrs |-> attrs, index |-> index, raised |-> FALSE]
    ELSE IF LineAt(lines, index).value = None
    THEN [attrs |-> attrs, index |-> index, raised |-> TRUE]
    ELSE AttrRun(lines, index + 1,
                 SetAttr(attrs, LineAt(lines, index).label,
                         LineAt(lines, index).value[1]))

NewPlot(name, attrs) == [name |-> name, attrs |-> attrs, plotList |-> <<>>]

NewSubPlot(name, attrs) ==
    [name |-> name, attrs |-> attrs, xValues |-> <<>>, yValues |-> <<>>]

\* Lines 390-407: a "$" line. The new plot is appended and dictPlotList is
\* its plot list from here on; dictSubPlot is left as it is.
BeginPlot(lines, st) ==
    LET nameIndex == st.index + 1
        named == nameIndex < Len(lines)
                    /\ LineAt(lines, nameIndex).quoted # None
        run == AttrRun(lines, nameIndex + 1, {})
    IN  IF ~named
        THEN [st EXCEPT !.listPlots = Append(@, NewPlot(None, {})),
                        !.index = nameIndex,
                        !.raised = TRUE]
        ELSE [st EXCEPT
                !.listPlots =
                    Append(@, NewPlot(LineAt(lines, nameIndex).quoted,
                                      run.attrs)),
                !.index = run.index,
                !.raised = run.raised]

\* A plausible slip: the subplot goes to the first plot of the list.
AddSubPlotToFirst(st, subPlot) ==
    IF st.listPlots = <<>>
    THEN [st EXCEPT
            !.dictPlotList = Append(@, subPlot),
            !.dictSubPlot = Some([plot |-> 0,
                                  pos |-> Len(st.dictPlotList) + 1])]
    ELSE [st EXCEPT
            !.listPlots[1].plotList = Append(@, subPlot),
            !.dictSubPlot =
                Some([plot |-> 1, pos |-> Len(st.listPlots[1].plotList) + 1])]

\* Lines 409-410: dictPlotList.append(dictSubPlot). dictPlotList is the plot
\* list of the last plot, or the list of line 385 while there is no plot.
AddSubPlot(st, subPlot) ==
    IF st.listPlots = <<>>
    THEN [st EXCEPT
            !.dictPlotList = Append(@, subPlot),
            !.dictSubPlot = Some([plot |-> 0,
                                  pos |-> Len(st.dictPlotList) + 1])]
    ELSE [st EXCEPT
            !.listPlots[Len(st.listPlots)].plotList = Append(@, subPlot),
            !.dictSubPlot =
                Some([plot |-> Len(st.listPlots),
                      pos |-> Len(Last(st.listPlots).plotList) + 1])]

\* Lines 408-425: a "#" line.
BeginSubPlot(lines, st) ==
    LET run == AttrRun(lines, st.index + 1, {})
        added == AddSubPlot(st, NewSubPlot(LineAt(lines, st.index).name,
                                           run.attrs))
    IN  [added EXCEPT !.index = run.index, !.raised = run.raised]

\* The dictionary dictSubPlot refers to.
SubPlotOf(st) ==
    LET ref == st.dictSubPlot[1]
    IN  IF ref.plot = 0 THEN st.dictPlotList[ref.pos]
        ELSE st.listPlots[ref.plot].plotList[ref.pos]

WithSubPlot(st, subPlot) ==
    LET ref == st.dictSubPlot[1]
    IN  IF ref.plot = 0
        THEN [st EXCEPT !.dictPlotList[ref.pos] = subPlot]
        ELSE [st EXCEPT !.listPlots[ref.plot].plotList[ref.pos] = subPlot]

IsFloat(listData, k) == Len(listData) >= k /\ listData[k].kind # "word"

\* A plausible slip: a row without a second number keeps its first.
AppendRowKeepsFirst(subPlot, listData) ==
    IF ~IsFloat(listData, 1)
    THEN [subPlot |-> subPlot, raised |-> TRUE]
    ELSE IF ~IsFloat(listData, 2)
    THEN [subPlot |-> [subPlot EXCEPT
                          !.xValues = Append(@, TokVal(listData[1]))],
          raised |-> FALSE]
    ELSE [subPlot |-> [subPlot EXCEPT
                          !.xValues = Append(@, TokVal(listData[1])),
                          !.yValues = Append(@, TokVal(listData[2]))],
          raised |-> FALSE]

\* Lines 428-429: the first token is appended to xValues before the second
\* is read; a token that is missing is an IndexError, one that is no number
\* a ValueError.
AppendRow(subPlot, listData) ==
    IF ~IsFloat(listData, 1)
    THEN [subPlot |-> subPlot, raised |-> TRUE]
    ELSE IF ~IsFloat(listData, 2)
    THEN [subPlot |-> [subPlot EXCEPT
                          !.xValues = Append(@, TokVal(listData[1]))],
          raised |-> TRUE]
    ELSE [subPlot |-> [subPlot EXCEPT
                          !.xValues = Append(@, TokVal(listData[1])),
                          !.yValues = Append(@, TokVal(listData[2]))],
          raised |-> FALSE]

\* A plausible slip: the index is not moved on after a data row.
DataRowStays(lines, st) ==
    IF st.dictSubPlot = None THEN [st EXCEPT !.raised = TRUE]
    ELSE LET row == AppendRow(SubPlotOf(st), LineAt(lines, st.index).tokens)
         IN  [WithSubPlot(st, row.subPlot) EXCEPT !.raised = row.raised]

\* Lines 426-430: any other line. dictSubPlot["xValues"] is a KeyError while
\* dictSubPlot is the empty dictionary of line 386.
DataRow(lines, st) ==
    IF st.dictSubPlot = None THEN [st EXCEPT !.raised = TRUE]
    ELSE LET row == AppendRow(SubPlotOf(st), LineAt(lines, st.index).tokens)
         IN  [WithSubPlot(st, row.subPlot) EXCEPT
                 !.index = IF row.raised THEN @ ELSE @ + 1,
                 !.raised = row.raised]

\* Lines 389-430: one iteration of the while loop.
PlotIteration(lines, st) ==
    IF LineAt(lines, st.index).start = "$" THEN BeginPlot(lines, st)
    ELSE IF LineAt(lines, st.index).start = "#" THEN BeginSubPlot(lines, st)
    ELSE DataRow(lines, st)

\* Lines 432-473: the plots are drawn one after the other. min() of an empty
\* list and float() of a text that is no number are a ValueError, a label
\* that is missing a KeyError.
NumberTexts == {"0.0"}

RenderRaises(mtvplot) ==
    \/ \E i \in 1..Len(mtvplot.plotList) : mtvplot.plotList[i].xValues = <<>>
    \/ \E item \in mtvplot.attrs :
          item[1] \in {"xmin", "ymin"} /\ item[2] \notin NumberTexts
    \/ ~({"xlabel", "ylabel"} \subseteq Labels(mtvplot.attrs))
    \/ \E i \in 1..Len(mtvplot.plotList) :
          "linelabel" \notin Labels(mtvplot.plotList[i].attrs)

\* Line 468: the name without its blanks and with "_" for its dots.
PngName(name) ==
    CASE name = "Plot 2." -> "Plot2_"
      [] OTHER -> name

\* ---- generatePngPlots as a process, one loop iteration per step
PlotStart ==
    /\ plotLoop = PlotLocals
    /\ listXSFile = <<>>
    /\ pcPlot = "parse"

\* Lines 388-430: one iteration of the while loop; an exception leaves
\* generatePngPlots.
PlotIterate ==
    /\ pcPlot = "parse"
    /\ plotLoop.index < Len(listLines)
    /\ plotLoop' = PlotIteration(listLines, plotLoop)
    /\ pcPlot' = IF plotLoop'.raised THEN "raised" ELSE "parse"
    /\ UNCHANGED <<listLines, plotDocument, listXSFile>>
    /\ UNCHANGED othersPlot

\* Line 388: the loop is over.
PlotParsed ==
    /\ pcPlot = "parse"
    /\ plotLoop.index >= Len(listLines)
    /\ pcPlot' = "render"
    /\ UNCHANGED <<listLines, plotDocument, plotLoop, listXSFile>>
    /\ UNCHANGED othersPlot

\* Lines 432-473.
PlotRender ==
    /\ pcPlot = "render"
    /\ IF \E i \in 1..Len(plotLoop.listPlots) :
             RenderRaises(plotLoop.listPlots[i])
       THEN /\ pcPlot' = "raised"
            /\ UNCHANGED listXSFile
       ELSE /\ pcPlot' = "returned"
            /\ listXSFile' = [i \in 1..Len(plotLoop.listPlots) |->
                                 PngName(plotLoop.listPlots[i].name[1])]
    /\ UNCHANGED <<listLines, plotDocument, plotLoop>>
    /\ UNCHANGED othersPlot

NextPlot == PlotIterate \/ PlotParsed \/ PlotRender

\* ---- the decoder on every file of up to MaxPlotLines lines
MaxPlotLines == 4

PlotAlphabet ==
    {DollarLine, QuotedLine("Plot1"), AttrLine("xlabel", "X"),
     AttrNoEqLine("ylabel"), HashLine("Series A"),
     DataLine(<<FloatTok(1), FloatTok(2)>>), DataLine(<<FloatTok(1)>>),
     DataLine(<<FloatTok(1), WordTok(2)>>), DataLine(<<>>)}

InitPlotLines ==
    /\ PlotOnly
    /\ listLines \in SeqsUpTo(PlotAlphabet, MaxPlotLines)
    /\ plotDocument = None
    /\ PlotStart

SpecPlotLines == InitPlotLines /\ [][NextPlot]_vars

\* The same, with the function running on until it returns or raises: a
\* step that can be taken is taken.
FairSpecPlotLines == SpecPlotLines /\ WF_vars(NextPlot)

\* ---- the decoder on the files of up to MaxBlockLines lines that are
\* "$" lines, name lines, "#" lines and rows of two numbers, in any order
MaxBlockLines == 6

BlockAlphabet ==
    {DollarLine, QuotedLine("Plot1"), HashLine("Series A"),
     DataLine(<<FloatTok(1), FloatTok(2)>>)}

InitPlotBlocks ==
    /\ PlotOnly
    /\ listLines \in SeqsUpTo(BlockAlphabet, MaxBlockLines)
    /\ plotDocument = None
    /\ PlotStart

SpecPlotBlocks == InitPlotBlocks /\ [][NextPlot]_vars

\* ---- the decoder on the files written from plots
\* Up to MaxPlots plots of up to MaxSubPlots subplots each. The plots at
\* odd places are "Plot1" with the labels of both axes, those at even
\* places "Plot 2." without attributes; a subplot is "Series A" with a line
\* label and two rows or "Series B" without attributes and with one row.
MaxPlots == 2
MaxSubPlots == 2

SubPlotsWritten ==
    {[name |-> "Series A", attrs |-> <<<<"linelabel", "A">>>>,
      rows |-> <<<<1, 2>>, <<2, 3>>>>],
     [name |-> "Series B", attrs |-> <<>>, rows |-> <<<<3, 1>>>>]}

PlotWritten(place, subPlots) ==
    IF place % 2 = 1
    THEN [name |-> "Plot1", attrs |-> <<<<"xlabel", "X">>, <<"ylabel", "Y">>>>,
          plotList |-> subPlots]
    ELSE [name |-> "Plot 2.", attrs |-> <<>>, plotList |-> subPlots]

DocumentsWritten ==
    {[i \in 1..Len(lists) |-> PlotWritten(i, lists[i])] :
        lists \in SeqsUpTo(SeqsUpTo(SubPlotsWritten, MaxSubPlots), MaxPlots)}

AttrLines(attrs) == [i \in 1..Len(attrs) |-> AttrLine(attrs[i][1], attrs[i][2])]

SubPlotLines(subPlot) ==
    <<HashLine(subPlot.name)>> \o AttrLines(subPlot.attrs)
    \o [i \in 1..Len(subPlot.rows) |->
           DataLine(<<FloatTok(subPlot.rows[i][1]),
                      FloatTok(subPlot.rows[i][2])>>)]

PlotLines(plot) ==
    <<DollarLine, NameLine(plot.name)>> \o AttrLines(plot.attrs)
    \o Flatten([i \in 1..Len(plot.plotList) |->
                   SubPlotLines(plot.plotList[i])])

\* The file of a list of plots, in the format of section 4.5.
WriteDocument(plots) ==
    Flatten([i \in 1..Len(plots) |-> PlotLines(plots[i])])

InitPlotDocument ==
    /\ PlotOnly
    /\ plotDocument \in
          {Some(plots) : plots \in
              {d \in DocumentsWritten :
                  d # <<>> /\ Last(d).plotList # <<>>}}
    /\ listLines = WriteDocument(plotDocument[1])
    /\ PlotStart

SpecPlotDocument == InitPlotDocument /\ [][NextPlot]_vars

ImageSet == Range(listImage)

IsRun(batch) == \A i \in 1..(Len(batch) - 1) : batch[i + 1] = batch[i] + 1

IsAscending(s) == \A i \in 1..(Len(s) - 1) : s[i] < s[i + 1]

\* C1 (partition is exact): the batches returned contain every element of S
\* exactly once and no number outside S, overlap mode on or off.
C1_PartitionExact ==
    pcBatch = "done" =>
        /\ Range(Flatten(Returned)) = ImageSet
        /\ Len(Flatten(Returned)) = Cardinality(ImageSet)

C1_Witness ==
    /\ pcBatch = "done"
    /\ Cardinality(ImageSet) >= 4
    /\ Len(Returned) >= 3
    /\ \E i \in 1..Len(Returned) : Len(Returned[i]) >= 2

\* C2 (contiguity): without overlap no batch is empty and consecutive
\* elements of a batch differ by exactly 1.
C2_Contiguity ==
    (pcBatch = "done" /\ ~overlap) =>
        \A i \in 1..Len(Returned) : Returned[i] # <<>> /\ IsRun(Returned[i])

C2_Witness ==
    /\ pcBatch = "done" /\ ~overlap
    /\ \E i \in 1..Len(Returned) : Len(Returned[i]) >= 2
    /\ \E i \in 1..(Len(listImageSorted) - 1) :
          listImageSorted[i + 1] > listImageSorted[i] + 1

\* C3 (size cap): without overlap every batch has at most batchSize elements.
C3_SizeCap ==
    (pcBatch = "done" /\ ~overlap) =>
        \A i \in 1..Len(Returned) : Len(Returned[i]) <= batchSize

C3_Witness ==
    /\ pcBatch = "done" /\ ~overlap
    /\ batchSize >= 2
    /\ IsRun(listImageSorted) /\ Len(listImageSorted) > batchSize
    /\ Len(Returned[1]) = batchSize

\* C4 (overlap singleton law): with overlap every batch has length exactly 1
\* and the set of the singletons is S.
C4_OverlapSingletons ==
    (pcBatch = "done" /\ overlap) =>
        /\ \A i \in 1..Len(Returned) : Len(Returned[i]) = 1
        /\ {Returned[i][1] : i \in 1..Len(Returned)} = ImageSet
        /\ Len(Returned) = Cardinality(ImageSet)

C4_Witness ==
    /\ pcBatch = "done" /\ overlap
    /\ batchSize >= 2
    /\ \E i \in 1..(Len(listImageSorted) - 1) :
          listImageSorted[i + 1] = listImageSorted[i] + 1
    /\ Len(Returned) >= 3

\* C5 (ascending, independent of the input order): the batches concatenated
\* in output order are the ascending sequence of S, and the batches are those
\* returned for S supplied in ascending order.
C5_AscendingOrder ==
    pcBatch = "done" =>
        /\ IsAscending(Flatten(Returned))
        /\ Range(Flatten(Returned)) = ImageSet
        /\ \A other \in Orderings(ImageSet) :
              IsAscending(other) =>
                  Returned = createListOfBatches(other, batchSize, overlap)

C5_Witness ==
    /\ pcBatch = "done"
    /\ Len(listImage) >= 3
    /\ ~IsAscending(listImage)
    /\ Len(Returned) >= 2

\* ------------------------------------------------ the decoder's claims
\* The result rows the loop has passed, in the order of the log.
RowsDecoded == SelectSeq(SubSeq(listOutput, 1, lineIndex - 1), IsResultRow)

Parsing == pcExec \in {"parse", "returned", "raised"}

\* The field key of the record holds the number of token k of the row.
Populated(rec, key, listLine, k) ==
    key \in DOMAIN rec /\ rec[key] = Some(TokVal(Tok(listLine, k)))

Numeric(listLine, positions) ==
    \A k \in positions : Tok(listLine, k).kind # "word"

PowderWilsonKeys ==
    {"powderWilsonScale", "powderWilsonBfactor", "powderWilsonResolution",
     "powderWilsonCorrelation", "powderWilsonRfactor"}

\* The layout line 307 selects for a row of at least 6 tokens.
SelectedLayout(listLine) ==
    IF startswithDash(Tok(listLine, 5)) \/ Len(listLine) < 11
    THEN ShortLayout ELSE ExtendedLayout

FieldAt(layout, p) ==
    (CHOOSE e \in Range(layout) : e.tok = p).key

\* C7 (decoder tolerance): with one token at a field position of the selected
\* layout of a result row replaced by a token that is no number, the row's
\* record is the record of the unreplaced row with that one field null, and
\* the records of all other lines are unchanged.
C7_DecoderTolerance ==
    (pcExec = "returned" /\ replaced # None) =>
        LET r == replaced[1]
            lines == SkipBanner(original)
            listLine == lines[r.line].listLine
            layout == SelectedLayout(listLine)
            reference == parseOutput(inData, original, spotFiles)[1].imageDozor
            k == Len(SelectSeq(SubSeq(lines, 1, r.line), IsResultRow))
        IN  (\E e \in Range(layout) : e.tok = r.pos) =>
                resultDozor.imageDozor =
                    [reference EXCEPT
                        ![k] = SetKey(@, FieldAt(layout, r.pos), None)]

\* C8 (a malformed log never raises): parseOutput returns, with one record
\* for every result row of the log, whatever the other lines are.
C8_MalformedLogNeverRaises ==
    /\ pcExec # "raised"
    /\ pcExec = "returned" =>
          Len(resultDozor.imageDozor) = Len(SelectSeq(listOutput, IsResultRow))

\* C9 (layout selection): a row of 10 tokens whose token 5 starts with "-"
\* has spot count, average intensity, R-factor, resolution from tokens 1-4,
\* main score from token 8, spot score from token 9 and no powder-Wilson
\* field; a row of 13 tokens whose token 5 does not start with "-" has the
\* powder-Wilson fields from tokens 5-9 and main score, spot score, visible
\* resolution from tokens 10, 11, 12 (the tokens read being numbers).
C9_LayoutSelection ==
    Parsing =>
        /\ Len(resultDozor.imageDozor) = Len(RowsDecoded)
        /\ \A k \in 1..Len(RowsDecoded) :
              LET listLine == RowsDecoded[k].listLine
                  rec == resultDozor.imageDozor[k]
              IN  /\ (/\ Len(listLine) = 10
                      /\ startswithDash(Tok(listLine, 5))
                      /\ Numeric(listLine, {1, 2, 3, 4, 8, 9})) =>
                        /\ Populated(rec, "spotsNumOf", listLine, 1)
                        /\ Populated(rec, "spotsIntAver", listLine, 2)
                        /\ Populated(rec, "spotsRFactor", listLine, 3)
                        /\ Populated(rec, "spotsResolution", listLine, 4)
                        /\ Populated(rec, "mainScore", listLine, 8)
                        /\ Populated(rec, "spotScore", listLine, 9)
                        /\ DOMAIN rec \cap PowderWilsonKeys = {}
                  /\ (/\ Len(listLine) = 13
                      /\ ~startswithDash(Tok(listLine, 5))
                      /\ Numeric(listLine, 1..12)) =>
                        /\ Populated(rec, "spotsNumOf", listLine, 1)
                        /\ Populated(rec, "spotsIntAver", listLine, 2)
                        /\ Populated(rec, "spotsRfactor", listLine, 3)
                        /\ Populated(rec, "spotsResolution", listLine, 4)
                        /\ Populated(rec, "powderWilsonScale", listLine, 5)
                        /\ Populated(rec, "powderWilsonBfactor", listLine, 6)
                        /\ Populated(rec, "powderWilsonResolution", listLine, 7)
                        /\ Populated(rec, "powderWilsonCorrelation", listLine, 8)
                        /\ Populated(rec, "powderWilsonRfactor", listLine, 9)
                        /\ Populated(rec, "mainScore", listLine, 10)
                        /\ Populated(rec, "spotScore", listLine, 11)
                        /\ Populated(rec, "visibleResolution", listLine, 12)

C9_Witness ==
    /\ pcExec = "returned"
    /\ Len(RowsDecoded) = 2
    /\ Len(RowsDecoded[1].listLine) = 10
    /\ startswithDash(Tok(RowsDecoded[1].listLine, 5))
    /\ Len(RowsDecoded[2].listLine) = 13
    /\ ~startswithDash(Tok(RowsDecoded[2].listLine, 5))
    /\ resultDozor.imageDozor[1].mainScore # None
    /\ "powderWilsonScale" \in DOMAIN resultDozor.imageDozor[2]

\* The value written to dozor.dat for a key.
Written(key) ==
    (CHOOSE c \in Range(commands) : c.key = key).value[1]

\* The angle the decoder's formula gives for firstImageNumber when the
\* images are counted from 1 at the overall starting angle.
AngleFromOverall ==
    RowAngle([inData EXCEPT !.startingAngle = OverallStartingAngle(inData),
                            !.firstImageNumber = 1],
             inData.firstImageNumber)

\* C10 as stated (angle recovery round trip): the overall starting angle of
\* generateCommands, put through the angle formula of parseOutput for
\* imageNumber = firstImageNumber, gives the startingAngle of the batch.
C10_AngleRoundTrip ==
    pcExec = "returned" =>
        \A k \in 1..Len(resultDozor.imageDozor) :
            resultDozor.imageDozor[k].number = Some(inData.firstImageNumber) =>
                \/ resultDozor.imageDozor[k].angle = Some(inData.startingAngle)
                \/ AngleFromOverall = inData.startingAngle

\* C10 as amended: the overall starting angle plus (firstImageNumber - 1)
\* oscillation ranges is the startingAngle of the batch (the value written
\* to dozor.dat being that angle within half a thousandth), and the angle
\* parseOutput gives for imageNumber = firstImageNumber is startingAngle plus
\* half the oscillation range.
C10_AngleRecovery ==
    pcExec \in {"execute", "parse", "returned"} =>
        /\ OverallStartingAngle(inData)
           + (inData.firstImageNumber - 1) * inData.oscillationRange
           = inData.startingAngle
        /\ Abs(Written("starting_angle") - OverallStartingAngle(inData)) <= 2
        /\ Written("first_image_number") = inData.firstImageNumber
        /\ \A k \in 1..Len(resultDozor.imageDozor) :
              resultDozor.imageDozor[k].number = Some(inData.firstImageNumber) =>
                  resultDozor.imageDozor[k].angle =
                      Some(inData.startingAngle + inData.oscillationRange \div 2)

C10_Witness ==
    /\ pcExec = "returned"
    /\ inData.firstImageNumber >= 2
    /\ inData.oscillationRange > 0
    /\ inData.overlap # None /\ inData.overlap[1] > 0
    /\ Len(resultDozor.imageDozor) = 2
    /\ resultDozor.imageDozor[1].number = Some(inData.firstImageNumber)

\* ---- ControlDozor.run
Failed(i) == dozorTasks[i].failure

\* The records the tasks executed so far have produced, task by task.
RecordsOfSucceeded ==
    Flatten([i \in 1..Len(dozorTasks) |->
                IF Failed(i) THEN <<>>
                ELSE TaskIndicators(dozorTasks[i].outData,
                                    ctlInData.returnSpotList)])

PartialFailure ==
    /\ \E i \in 1..Len(dozorTasks) : Failed(i)
    /\ \E i \in 1..Len(dozorTasks) : ~Failed(i)

C11_RecordOrder ==
    Parsing =>
        /\ Len(resultDozor.imageDozor) = Len(RowsDecoded)
        /\ \A k \in 1..Len(RowsDecoded) :
              /\ resultDozor.imageDozor[k].number
                    = Some(TokVal(Tok(RowsDecoded[k].listLine, 0)))
              /\ resultDozor.imageDozor[k]
                    = RowRecord(inData, RowsDecoded[k].listLine, spotFiles)

\* parseOutput has returned two records for a log whose two rows carry
\* the same image number with different columns.
C11_Witness ==
    /\ pcExec = "returned"
    /\ Len(resultDozor.imageDozor) = 2
    /\ resultDozor.imageDozor[1].number = resultDozor.imageDozor[2].number
    /\ resultDozor.imageDozor[1] # resultDozor.imageDozor[2]


\* ---- ControlIndexing.runControlDozor
Joining == pcIdx \in {"join", "returned", "indexing", "raised"}

Proceeding == pcIdx \in {"returned", "indexing", "raised"}

Succeeded(k) == listControlDozor[k].state = "success"

\* The tasks among the first n started that succeeded, in start order.
SucceededAmong(n) ==
    SelectSeq(SubSeq(listControlDozor, 1, n), LAMBDA u : u.state = "success")

\* C12 (submission-order aggregation): the tasks are started in the order
\* of the sub-wedges and of the images within a sub-wedge, and whatever the
\* order in which they terminate, the list that is built and returned
\* holds the outputs of the succeeded tasks in the order of their start.
C12_SubmissionOrder ==
    Joining =>
        /\ \A k \in 1..Len(listControlDozor) :
              listControlDozor[k].image = SubWedgeImages[k]
        /\ listOutDataControlDozor =
              [k \in 1..Len(SucceededAmong(joinIndex - 1)) |->
                  SucceededAmong(joinIndex - 1)[k].outData[1]]

\* Three tasks terminated in the reverse of their start order, all
\* succeeded, and runControlDozor has returned their three outputs.
C12_Witness ==
    /\ pcIdx = "returned"
    /\ completed = <<3, 2, 1>>
    /\ Len(listOutDataControlDozor) = 3
    /\ \A k \in 1..3 :
          listOutDataControlDozor[k].imageQualityIndicators # <<>>

\* C13 (join before proceeding): when runControlDozor has returned and the
\* caller goes on, one task was started for every image of every sub-wedge
\* and every one of them has terminated and was joined, succeeded or
\* failed.
C13_JoinBeforeProceeding ==
    Proceeding =>
        /\ Len(listControlDozor) = Len(SubWedgeImages)
        /\ joinIndex = Len(listControlDozor) + 1
        /\ \A k \in 1..Len(listControlDozor) :
              /\ listControlDozor[k].state \in {"success", "failure"}
              /\ k \in Range(completed)

\* The caller has gone on to the indexing after a run of three tasks of
\* which one failed, the last to terminate being the first started.
C13_Witness ==
    /\ pcIdx = "indexing"
    /\ Len(listControlDozor) = 3
    /\ \E k \in 1..3 : ~Succeeded(k)
    /\ completed[3] = 1

\* C14 (sibling isolation): a task that failed, however early, leaves the
\* others as they are: every image still gets its task, every task runs to
\* its own end, and the returned list holds the output of every task that
\* succeeded, once, and as many elements as tasks succeeded, so nothing of
\* a failed task.
C14_SiblingIsolation ==
    /\ Joining => Len(listControlDozor) = Len(SubWedgeImages)
    /\ Proceeding =>
          /\ \A k \in 1..Len(listControlDozor) :
                listControlDozor[k].state # "running"
          /\ Len(listOutDataControlDozor) =
                Cardinality({k \in 1..Len(listControlDozor) : Succeeded(k)})
          /\ \A k \in 1..Len(listControlDozor) :
                Succeeded(k) =>
                   \E p \in 1..Len(listOutDataControlDozor) :
                      listOutDataControlDozor[p]
                         = listControlDozor[k].outData[1]

\* The first task started failed before any other terminated; the two
\* others succeeded and their outputs were returned.
C14_Witness ==
    /\ Proceeding
    /\ Len(listControlDozor) = 3
    /\ ~Succeeded(1) /\ Succeeded(2) /\ Succeeded(3)
    /\ completed[1] = 1
    /\ Len(listOutDataControlDozor) = 2


\* ---- ControlDozor.runDozorTask, the working directories
\* C15 (working-directory exclusivity): the ExecDozor tasks of one run have
\* pairwise different working directory suffixes, each the four-digit
\* first image number of its batch, "_", and the four-digit last one.
C15_WorkingDirectoryExclusive ==
    /\ \A i, j \in 1..Len(dozorTasks) :
          i # j => dozorTasks[i].workingDirectorySuffix
                      # dozorTasks[j].workingDirectorySuffix
    /\ \A i \in 1..Len(dozorTasks) :
          LET batch == dozorTasks[i].batch
              suffix == dozorTasks[i].workingDirectorySuffix
          IN  /\ Len(suffix) = 9
              /\ suffix[5] = "_"
              /\ SubSeq(suffix, 1, 4) = ZeroPadded4(batch[1])
              /\ SubSeq(suffix, 6, 9) = ZeroPadded4(Last(batch))

\* A run on h5 images with overlap has executed three batches, each as
\* image number 1 of its own file.
C15_Witness ==
    /\ pcRun = "returned"
    /\ Len(dozorTasks) >= 3
    /\ ctlInData.h5 /\ hasOverlap
    /\ \A i \in 1..Len(dozorTasks) : dozorTasks[i].inData.firstImageNumber = 1


\* ---- ControlDozor.run when no batch succeeds
AllBatchesFailed ==
    /\ Len(dozorTasks) = Len(listAllBatches)
    /\ \A i \in 1..Len(dozorTasks) : Failed(i)

\* C16 (empty result instead of error): when every batch of a run has
\* failed, run is left by returning, never by raising, and the
\* imageQualityIndicators it returns is the empty list, whether the images
\* came from an explicit list, from a template and a range or from a data
\* collection id.
C16_EmptyResultNotError ==
    (pcRun \in {"returned", "raised"} /\ AllBatchesFailed) =>
        /\ pcRun = "returned"
        /\ outData.imageQualityIndicators = <<>>


\* ---- ExecDozor.generatePngPlots
\* What section 4.5 has a written subplot and a written plot decode to.
SubPlotExpected(subPlot) ==
    [name |-> subPlot.name,
     attrs |-> Range(subPlot.attrs),
     xValues |-> [i \in 1..Len(subPlot.rows) |-> subPlot.rows[i][1]],
     yValues |-> [i \in 1..Len(subPlot.rows) |-> subPlot.rows[i][2]]]

PlotExpected(plot) ==
    [name |-> Some(plot.name),
     attrs |-> Range(plot.attrs),
     plotList |-> [i \in 1..Len(plot.plotList) |->
                      SubPlotExpected(plot.plotList[i])]]

\* C17 (plot decoder nesting): for a file written from plots, each a "$"
\* line, its quoted name, its attribute lines and its subplots, each
\* subplot a "#" line, its attribute lines and its rows, the pass does not
\* raise and leaves in listPlots the plots in file order with their names
\* and attributes, each with its own subplots in file order, the xValues
\* and yValues of a subplot being the first and second numbers of its rows
\* in row order.
C17_PlotNesting ==
    (plotDocument # None /\ pcPlot \in {"render", "returned", "raised"}) =>
        /\ ~plotLoop.raised
        /\ plotLoop.listPlots =
              [i \in 1..Len(plotDocument[1]) |->
                  PlotExpected(plotDocument[1][i])]

\* The file of two plots has been read; the first plot is "Plot1" and
\* holds "Series A" with xValues 1, 2 and yValues 2, 3 and then "Series B".
C17_Witness ==
    /\ pcPlot = "render"
    /\ Len(plotLoop.listPlots) = 2
    /\ plotLoop.listPlots[1].name = Some("Plot1")
    /\ Len(plotLoop.listPlots[1].plotList) = 2
    /\ plotLoop.listPlots[1].plotList[1].name = "Series A"
    /\ plotLoop.listPlots[1].plotList[1].xValues = <<1, 2>>
    /\ plotLoop.listPlots[1].plotList[1].yValues = <<2, 3>>
    /\ plotLoop.listPlots[1].plotList[2].name = "Series B"
    /\ Len(plotLoop.listPlots[2].plotList) >= 1

\* Line i of the file is not the line after a "$" line.
NoNameLine(i) == i = 1 \/ listLines[i - 1].start # "$"

NumericTokens(tokens) == {k \in 1..Len(tokens) : tokens[k].kind # "word"}

\* An attribute line without "=", or a data line (a line that is not the
\* name line of a plot) with fewer than two numbers.
FormatError(i) ==
    \/ listLines[i].start = "%" /\ listLines[i].value = None
    \/ /\ listLines[i].start = ""
       /\ NoNameLine(i)
       /\ Cardinality(NumericTokens(listLines[i].tokens)) < 2

\* C18 (plot format errors reject the whole file): for a file with an
\* attribute line without "=" or a data row with fewer than two numbers,
\* the pass never comes to its end, nothing is drawn and no list is
\* returned, whatever was read before that line.
C18_FormatErrorRejectsFile ==
    (\E i \in 1..Len(listLines) : FormatError(i)) =>
        /\ pcPlot \notin {"render", "returned"}
        /\ listXSFile = <<>>

\* The pass has raised on a data row with one number, after a plot with a
\* name and a subplot had been read, and nothing was returned.
C18_Witness ==
    /\ pcPlot = "raised"
    /\ plotLoop.raised
    /\ Len(plotLoop.listPlots) = 1
    /\ plotLoop.listPlots[1].name # None
    /\ Len(plotLoop.listPlots[1].plotList) = 1
    /\ plotLoop.index < Len(listLines)
    /\ FormatError(plotLoop.index + 1)
    /\ listLines[plotLoop.index + 1].start = ""
    /\ listXSFile = <<>>

\* Every subplot the pass has made so far, in a plot or not.
SubPlotsMade ==
    Range(plotLoop.dictPlotList)
    \cup UNION {Range(plotLoop.listPlots[i].plotList) :
                  i \in 1..Len(plotLoop.listPlots)}

\* C19 (equal-length series): after every iteration of the pass that did
\* not raise, and so in the plots the pass ends with, xValues and yValues
\* of every subplot have the same length.
C19_EqualLengthSeries ==
    ~plotLoop.raised =>
        \A subPlot \in SubPlotsMade :
            Len(subPlot.xValues) = Len(subPlot.yValues)

\* The pass is over and has left a subplot with a row in a plot.
C19_Witness ==
    /\ pcPlot = "render"
    /\ plotDocument = None
    /\ \E i \in 1..Len(plotLoop.listPlots) :
          \E subPlot \in Range(plotLoop.listPlots[i].plotList) :
             Len(subPlot.xValues) >= 1

\* ---- ExecDozor.generateCommands
\* The keys of dozor.dat in their order, the optional ones included.
ProtocolOrder ==
    <<"detector", "library", "nx", "ny", "pixel", "exposure", "spot_size",
      "spot_level", "detector_distance", "X-ray_wavelength",
      "fraction_polarization", "pixel_min", "pixel_max", "ix_min", "ix_max",
      "iy_min", "iy_max", "bad_zona", "orgx", "orgy", "oscillation_range",
      "image_step", "starting_angle", "first_image_number", "number_images",
      "wedge_number", "name_template_image">>

BadRegionKeys == {"ix_min", "ix_max", "iy_min", "iy_max"}

OptionalKeys == BadRegionKeys \cup {"bad_zona", "wedge_number"}

\* The place of a key in ProtocolOrder.
Place(key) == CHOOSE k \in 1..Len(ProtocolOrder) : ProtocolOrder[k] = key

\* The keys between the first and the last line of the text.
KeysWritten == [i \in 1..(Len(commands) - 2) |-> commands[i + 1].key]

\* C20 (protocol line order): the text of generateCommands starts with the
\* line "!" and ends with the line "end"; between them every line has a key
\* of the fixed order, the keys come in that order and so at most once,
\* every key that is not optional is there, and ix_min, ix_max, iy_min and
\* iy_max are there all four or not at all.
C20_ProtocolLineOrder ==
    pcExec # "generate" =>
        /\ Len(commands) >= 2
        /\ commands[1].key = "!"
        /\ Last(commands).key = "end"
        /\ Range(KeysWritten) \subseteq Range(ProtocolOrder)
        /\ \A i \in 1..Len(KeysWritten) : \A j \in (i + 1)..Len(KeysWritten) :
              Place(KeysWritten[i]) < Place(KeysWritten[j])
        /\ Range(ProtocolOrder) \ OptionalKeys \subseteq Range(KeysWritten)
        /\ \/ BadRegionKeys \subseteq Range(KeysWritten)
           \/ BadRegionKeys \cap Range(KeysWritten) = {}

\* A text with the region of the site configuration, bad_zona and the
\* wedge number has been written: every key of the order is in it.
C20_Witness ==
    /\ pcExec = "execute"
    /\ inData.siteRegion # None
    /\ KeysWritten = ProtocolOrder

\* ---- ExecDozor.parseOutput, short rows
\* The entries of the short layout whose token the row has.
ShortFieldsPresent(listLine) ==
    {e \in Range(ShortLayout) : e.tok < Len(listLine)}

\* C21 (short rows use the short layout): every decoded row with fewer than
\* 11 tokens, rows with fewer than 6 tokens included, has each field of the
\* short layout whose token the row has populated from that token (the
\* tokens being numbers).
C21_ShortRowsShortLayout ==
    Parsing =>
        \A k \in 1..Len(RowsDecoded) :
            LET listLine == RowsDecoded[k].listLine
                rec == resultDozor.imageDozor[k]
            IN  (/\ Len(listLine) < 11
                 /\ Numeric(listLine,
                            {e.tok : e \in ShortFieldsPresent(listLine)})) =>
                    \A e \in ShortFieldsPresent(listLine) :
                        Populated(rec, e.key, listLine, e.tok)

\* ---- ExecDozor.parseOutput, the rows of a log
\* The first token of the line, after "|" is replaced by a blank and the
\* line is split into tokens, is made of digits only.
Qualifies(line) ==
    /\ line.listLine # <<>>
    /\ line.listLine[1].kind = "int"
    /\ ~line.listLine[1].neg

\* The lines of the log after the sixth that the loop has passed and that
\* qualify, in the order of the log.
QualifyingPassed ==
    SelectSeq(SubSeq(toolLog, 7, Min({Len(toolLog), lineIndex + 5})),
              Qualifies)

C23_GreedyMaximality ==
    (pcBatch = "done" /\ ~overlap) =>
        \A i \in 1..(Len(Returned) - 1) :
            \/ Returned[i + 1][1] # Last(Returned[i]) + 1
            \/ Len(Returned[i]) = batchSize

\* Batches have been returned of which one was closed at a gap before it
\* was full and another was closed full with the next number following.
C23_Witness ==
    /\ pcBatch = "done" /\ ~overlap
    /\ batchSize >= 2
    /\ \E i \in 1..(Len(Returned) - 1) :
          /\ Returned[i + 1][1] # Last(Returned[i]) + 1
          /\ Len(Returned[i]) < batchSize
    /\ \E i \in 1..(Len(Returned) - 1) :
          /\ Returned[i + 1][1] = Last(Returned[i]) + 1
          /\ Len(Returned[i]) = batchSize

\* ---- ControlDozor.runDozorTask, the images of an execution
\* The image numbers ExecDozor is told to process.
ImageRange(task) ==
    task.inData.firstImageNumber
    ..(task.inData.firstImageNumber + task.inData.numberImages - 1)

LoopOver == pcRun \in {"returned", "raised"}

\* C24 as stated (run parameters cover exactly the batch): whatever the
\* image format and the overlap, firstImageNumber is the first number of
\* the batch, numberImages its length, the range from firstImageNumber is
\* the set of the batch, and over a whole run every image of the
\* dictionary is in the range of exactly one execution.
C24_RunParametersCoverBatch ==
    /\ \A i \in 1..Len(dozorTasks) :
          /\ dozorTasks[i].inData.firstImageNumber = dozorTasks[i].batch[1]
          /\ dozorTasks[i].inData.numberImages = Len(dozorTasks[i].batch)
          /\ ImageRange(dozorTasks[i]) = Range(dozorTasks[i].batch)
    /\ LoopOver =>
          \A image \in Range(dictImage) :
              Cardinality({i \in 1..Len(dozorTasks) :
                             image \in ImageRange(dozorTasks[i])}) = 1

\* C24 as the code has it: numberImages is the length of the batch; for
\* h5 images with overlap the batch is one image and firstImageNumber is 1
\* (the image is the first of its own file); in every other case
\* firstImageNumber is the first number of the batch and the range from it
\* is the set of the batch; over a whole run every image of the dictionary
\* is in the batch of exactly one execution.
C24_RunParametersCoverBatchOrFile ==
    /\ \A i \in 1..Len(dozorTasks) :
          /\ dozorTasks[i].inData.numberImages = Len(dozorTasks[i].batch)
          /\ IF ctlInData.h5 /\ hasOverlap
             THEN /\ Len(dozorTasks[i].batch) = 1
                  /\ dozorTasks[i].inData.firstImageNumber = 1
             ELSE /\ dozorTasks[i].inData.firstImageNumber
                        = dozorTasks[i].batch[1]
                  /\ ImageRange(dozorTasks[i]) = Range(dozorTasks[i].batch)
    /\ LoopOver =>
          \A image \in Range(dictImage) :
              Cardinality({i \in 1..Len(dozorTasks) :
                             image \in Range(dozorTasks[i].batch)}) = 1

\* A run on h5 images without overlap is over that had two executions, the
\* second for a batch of two images that starts after image 1.
C24_Witness ==
    /\ LoopOver
    /\ ctlInData.h5 /\ ~hasOverlap
    /\ Len(dozorTasks) = 2
    /\ Len(dozorTasks[2].batch) = 2
    /\ dozorTasks[2].inData.firstImageNumber > 1

\* ---- ControlIndexing.runControlDozor, the places of the outputs
\* C25 (positional correspondence): when runControlDozor has returned, its
\* list has one element for every task started and the i-th element is the
\* output of the i-th task, so that the list of spot files made from it has
\* at place i the spot file of the i-th image of the sub-wedges.
C25_PositionalCorrespondence ==
    /\ Proceeding =>
          /\ Len(listOutDataControlDozor) = Len(listControlDozor)
          /\ \A i \in 1..Len(listControlDozor) :
                listControlDozor[i].outData
                   = Some(listOutDataControlDozor[i])
    /\ pcIdx = "indexing" =>
          /\ Len(listDozorSpotFile) = Len(SubWedgeImages)
          /\ \A i \in 1..Len(SubWedgeImages) :
                listDozorSpotFile[i]
                   = listControlDozor[i].outData[1]
                        .imageQualityIndicators[1].dozorSpotFile

\* ---- ExecDozor.generatePngPlots, the index of the pass
\* C26 (forward progress): the index never goes down, every iteration of
\* the parsing loop that does not raise leaves it higher than it was, so
\* that no line is read by two iterations, and on every list of lines the
\* loop comes to an end, through or by an exception.
C26_ForwardProgress ==
    /\ [][/\ plotLoop'.index >= plotLoop.index
          /\ (pcPlot = "parse" /\ pcPlot' = "parse") =>
                plotLoop'.index > plotLoop.index]_vars
    /\ <>(pcPlot # "parse")

\* The loop is through a file of MaxPlotLines lines that has a plot, a
\* subplot and a row.
C26_Witness ==
    /\ pcPlot = "render"
    /\ Len(listLines) = MaxPlotLines
    /\ plotLoop.index = Len(listLines)
    /\ Len(plotLoop.listPlots) = 1
    /\ Len(plotLoop.listPlots[1].plotList) = 1
    /\ plotLoop.listPlots[1].plotList[1].xValues # <<>>

\* ---- ExecDozor.generatePngPlots, the end of the file
\* The state of the decoder of section 4.5 after a line, "name" being the
\* state between a "$" line and the name line, and "error" the state of a
\* file that is not of the grammar.
AfterLine(state, line) ==
    IF state = "error" THEN "error"
    ELSE IF state = "name"
    THEN IF line.quoted # None THEN "in-block-attrs" ELSE "error"
    ELSE IF line.start = "$" THEN "name"
    ELSE IF line.start = "#"
    THEN IF state = "awaiting-block" THEN "error" ELSE "in-subplot-attrs"
    ELSE IF line.start = "%"
    THEN IF state \in {"in-block-attrs", "in-subplot-attrs"}
            /\ line.value # None
         THEN state ELSE "error"
    ELSE IF state \in {"in-subplot-attrs", "in-subplot-data"}
            /\ Len(line.tokens) >= 2
            /\ {1, 2} \subseteq NumericTokens(line.tokens)
         THEN "in-subplot-data" ELSE "error"

RECURSIVE EndState(_, _)
EndState(lines, state) ==
    IF lines = <<>> THEN state
    ELSE EndState(Tail(lines), AfterLine(state, Head(lines)))

\* C27 (end of input is accepted in every decoder state): the pass over a
\* file of the grammar that ends after a "$" line, after a name line,
\* after an attribute line of a plot or of a subplot, or after a "#" line,
\* does not raise, like the pass over a file that ends after a data row.
C27_EndOfInputAccepted ==
    EndState(listLines, "awaiting-block") # "error" => ~plotLoop.raised

\* The same for the files that end after a data row, and for the file
\* without lines.
EndOfInputAfterRow ==
    EndState(listLines, "awaiting-block")
        \in {"awaiting-block", "in-subplot-data"} => ~plotLoop.raised

\* ---- ControlDozor.run, overlap and the size of the batches
\* The overlap run hands to runDozorTask: that of inData, else the one of
\* the data collection when determineBatchsize keeps it, else 0.
OverlapHanded ==
    IF ctlInData.overlap # None THEN ctlInData.overlap[1]
    ELSE IF /\ ctlInData.dataCollectionId # None
            /\ ctlInData.dataCollection.overlap # None
            /\ Abs(ctlInData.dataCollection.overlap[1]) > Degree
    THEN ctlInData.dataCollection.overlap[1]
    ELSE 0

\* C28 (overlap implies one image per invocation): every execution gets
\* the overlap handed to the batches, and when that overlap is not 0 every
\* batch of the run, and so every batch executed, has exactly one image; a
\* batch of more than one image is executed with overlap 0 only.
C28_OverlapOneImage ==
    pcRun # "start" =>
        /\ \A i \in 1..Len(dozorTasks) :
              /\ dozorTasks[i].inData.overlap = Some(OverlapHanded)
              /\ dozorTasks[i].batch = listAllBatches[i]
              /\ Len(dozorTasks[i].batch) > 1 =>
                    dozorTasks[i].inData.overlap = Some(0)
        /\ OverlapHanded # 0 =>
              \A i \in 1..Len(listAllBatches) : Len(listAllBatches[i]) = 1

\* A run with an overlap in its inData, and none in its data collection,
\* has executed three batches of one image each.
C28_Witness ==
    /\ LoopOver
    /\ ctlInData.overlap # None /\ OverlapHanded # 0
    /\ ctlInData.dataCollectionId # None
    /\ ctlInData.dataCollection.overlap = None
    /\ Len(dictImage) = 3
    /\ Len(dozorTasks) = 3

\* ---- ExecDozor.generatePngPlots, where a data row goes
\* The step is an iteration of the parsing loop on a line that starts with
\* neither "$" nor "#", and it does not raise.
DataRowStored ==
    /\ pcPlot = "parse" /\ pcPlot' = "parse"
    /\ plotLoop.index < Len(listLines)
    /\ LineAt(listLines, plotLoop.index).start \notin {"$", "#"}

\* C29 (data rows stay inside the current block): an iteration that stores
\* a data row appends its two numbers to the last subplot of the last plot
\* begun and changes nothing else: no subplot of an earlier plot, and no
\* subplot outside the plots; without such a subplot the row is not stored.
C29_DataRowsInCurrentBlock ==
    [][DataRowStored =>
          LET plots == plotLoop.listPlots
              n == Len(plots)
              tokens == LineAt(listLines, plotLoop.index).tokens
          IN  /\ n > 0
              /\ plots[n].plotList # <<>>
              /\ plotLoop'.dictPlotList = plotLoop.dictPlotList
              /\ plotLoop'.listPlots =
                    [plots EXCEPT
                       ![n].plotList[Len(plots[n].plotList)] =
                          [@ EXCEPT
                             !.xValues = Append(@, TokVal(tokens[1])),
                             !.yValues = Append(@, TokVal(tokens[2]))]]]_vars

\* ---- ExecDozor.generatePngPlots, the subplots of a file
\* The places of the "$" lines and of the "#" lines of the file.
DollarPlaces == {i \in 1..Len(listLines) : listLines[i].start = "$"}

HashPlaces == {i \in 1..Len(listLines) : listLines[i].start = "#"}

\* The "#" lines between the "$" line at place d and the next "$" line.
HashesOfBlock(d) ==
    {i \in HashPlaces :
        d < i /\ \A e \in DollarPlaces : e > d => i < e}

\* When the pass is through, every plot has as many subplots as "#" lines
\* follow its "$" line before the next "$" line.
SubPlotsOfBlocksKept ==
    pcPlot \in {"render", "returned"} =>
        /\ Len(plotLoop.listPlots) = Cardinality(DollarPlaces)
        /\ \A d \in DollarPlaces :
              Len(plotLoop.listPlots[
                      Cardinality({e \in DollarPlaces : e <= d})].plotList)
                 = Cardinality(HashesOfBlock(d))

\* C30 (no subplot is lost): when the pass is through, every subplot begun
\* by a "#" line is in the plot list of the plot whose "$" line was the
\* last before it, and of no other; so no "#" line stands before the first
\* "$" line of a file the pass gets through.
C30_NoSubPlotLost ==
    /\ SubPlotsOfBlocksKept
    /\ pcPlot \in {"render", "returned"} =>
          \A i \in HashPlaces : \E d \in DollarPlaces : d < i

====
